---- MODULE Spec2Model ----
(***************************************************************************)
(* The abstract event graph (AEG) builder and the critical-cycle           *)
(* enumerator of the toy-language fence analyser.                          *)
(*                                                                         *)
(* A behaviour builds one program's AEG statement by statement             *)
(* (create_aeg / handle_statement), wires the competing edges, fixes an    *)
(* AegConfig and then runs critical_cycles.                                 *)
(*                                                                         *)
(* Node and edge handles are positions in the node and edge lists; they    *)
(* are 1-based here and 0-based in the source.                             *)
(***************************************************************************)
EXTENDS Integers, Sequences, FiniteSets, TLC

(***************************************************************************)
(* Bounds of the model.                                                    *)
(***************************************************************************)
MaxThreads == 4
MaxBuildThreads == 3
MaxStmts == 2
MaxNodes == 5
MaxBlock == 1
MaxBefore == 1
MaxProgramThreads == 2
MaxProgramStmts == 3
MaxProgramNodes == 6
MaxLoopThreads == 2
MaxLoopStmts == 2
MaxLoopNodes == 6
MaxRunStmts == 2
MaxBuffer == 3

(***************************************************************************)
(* Names of the programs: the globals are the names of the init block,     *)
(* every other name is thread local.                                       *)
(***************************************************************************)
global_vars == {"x", "y", "z"}
local_vars == {"a"}

None == <<>>

(***************************************************************************)
(* ast: expressions, conditions and statements.                            *)
(***************************************************************************)
Num(n) == [k |-> "Num", n |-> n]
Var(v) == [k |-> "Var", v |-> v]

Neg(c) == [k |-> "Neg", c1 |-> c]
And(c, d) == [k |-> "And", c1 |-> c, c2 |-> d]
Eq(e, f) == [k |-> "Eq", e1 |-> e, e2 |-> f]
Leq(e, f) == [k |-> "Leq", e1 |-> e, e2 |-> f]

Assign(w, e) == [k |-> "Assign", w |-> w, e |-> e]
Modify(w, e) == [k |-> "Modify", w |-> w, e |-> e]
FenceStmt(f) == [k |-> "Fence", f |-> f]
If(c, thn, els) == [k |-> "If", c |-> c, thn |-> thn, els |-> els]
While(c, body) == [k |-> "While", c |-> c, body |-> body]

FenceType == {"WR", "WW", "RW", "RR"}

(***************************************************************************)
(* petgraph::DiGraph<Node, AegEdge>: a list of nodes and a list of edges.  *)
(***************************************************************************)
Read(t, m) == [kind |-> "Read", thread |-> t, addr |-> m]
Write(t, m) == [kind |-> "Write", thread |-> t, addr |-> m]
Fence(t, f) == [kind |-> "Fence", thread |-> t, addr |-> f]

DiGraph_new == [nodes |-> <<>>, edges |-> <<>>]

node_count(g) == Len(g.nodes)
edge_count(g) == Len(g.edges)
node_indices(g) == 1..Len(g.nodes)

add_node(g, n) == [g EXCEPT !.nodes = Append(@, n)]
add_edge(g, a, b, w) ==
    [g EXCEPT !.edges = Append(@, [from |-> a, to |-> b, weight |-> w])]

\* The edges a -> b, as edge handles.
edges_connecting(g, a, b) ==
    {i \in 1..Len(g.edges) : g.edges[i].from = a /\ g.edges[i].to = b}

SetMax(S) == CHOOSE i \in S : \A j \in S : j <= i

\* The outgoing edge list of a node is walked newest edge first.
find_edge(g, a, b) ==
    IF edges_connecting(g, a, b) = {} THEN 0 ELSE SetMax(edges_connecting(g, a, b))

update_edge(g, a, b, w) ==
    IF find_edge(g, a, b) # 0
    THEN [g EXCEPT !.edges[find_edge(g, a, b)].weight = w]
    ELSE add_edge(g, a, b, w)

contains_edge(g, a, b) == find_edge(g, a, b) # 0

\* Node::address and Node::thread_name
address(n) == IF n.kind = "Fence" THEN None ELSE n.addr
thread_name(n) == n.thread

(***************************************************************************)
(* Helpers on sequences.                                                   *)
(***************************************************************************)
Contains(s, e) == \E i \in 1..Len(s) : s[i] = e
Range(s) == {s[i] : i \in 1..Len(s)}
Last(s) == s[Len(s)]


\* connect_previous without the node != current_node test
RECURSIVE connect_previous_with_self(_, _, _)
connect_previous_with_self(g, last, current) ==
    IF last = <<>> THEN g
    ELSE connect_previous_with_self(
             update_edge(g, Head(last), current, "ProgramOrder"),
             Tail(last), current)

(***************************************************************************)
(* The AEG builder (aeg.rs).  The builder state b threaded through         *)
(* handle_statement holds the graph, the predecessor list last_node, the   *)
(* thread's read_nodes and write_nodes, the value returned by the last     *)
(* call (first, None or the list of first nodes) and whether a todo!()     *)
(* was hit.                                                                *)
(***************************************************************************)
RECURSIVE connect_previous(_, _, _)
connect_previous(g, last, current) ==
    IF last = <<>> THEN g
    ELSE connect_previous(
             IF Head(last) # current
             THEN update_edge(g, Head(last), current, "ProgramOrder")
             ELSE g,
             Tail(last), current)

\* handle_expression without the globals.contains test
handle_expression_any_name(c, expr, thread) ==
    IF expr.k = "Var"
    THEN LET g1 == add_node(c.graph, Read(thread, expr.v))
             node == node_count(g1)
         IN [graph |-> IF c.reads # <<>>
                       THEN add_edge(g1, Last(c.reads), node, "ProgramOrder")
                       ELSE g1,
             reads |-> Append(c.reads, node)]
    ELSE c

\* c = [graph, reads]
handle_expression(c, expr, thread) ==
    IF expr.k = "Var" /\ expr.v \in global_vars
    THEN LET g1 == add_node(c.graph, Read(thread, expr.v))
             node == node_count(g1)
         IN [graph |-> IF c.reads # <<>>
                       THEN add_edge(g1, Last(c.reads), node, "ProgramOrder")
                       ELSE g1,
             reads |-> Append(c.reads, node)]
    ELSE c

RECURSIVE handle_condition(_, _, _)
handle_condition(c, cond, thread) ==
    CASE cond.k = "Neg" -> handle_condition(c, cond.c1, thread)
      [] cond.k = "And" ->
            handle_condition(handle_condition(c, cond.c1, thread), cond.c2, thread)
      [] OTHER ->
            handle_expression(handle_expression(c, cond.e1, thread), cond.e2, thread)

ADD_SKIP_CONNECTION == TRUE

\* the merge that forgets the ends of the then branch
merge_branch_else_only(last, thn_branch) == last

\* push every node of thn_branch that last_node does not hold yet
RECURSIVE merge_branch(_, _)
merge_branch(last, thn_branch) ==
    IF thn_branch = <<>> THEN last
    ELSE merge_branch(
             IF Contains(last, Head(thn_branch)) THEN last
             ELSE Append(last, Head(thn_branch)),
             Tail(thn_branch))

\* the loop that adds no edge
connect_each_none(g, last, nodes) == g

\* for node in nodes { connect_previous(graph, last, node) }
RECURSIVE connect_each(_, _, _)
connect_each(g, last, nodes) ==
    IF nodes = <<>> THEN g
    ELSE connect_each(connect_previous(g, last, Head(nodes)), last, Tail(nodes))

write_only(b, thread, vwrite) ==
    LET g1 == add_node(b.graph, Write(thread, vwrite))
        lhs == node_count(g1)
    IN [b EXCEPT !.graph = connect_previous(g1, b.last_node, lhs),
                 !.last_node = <<lhs>>,
                 !.write_nodes = Append(@, lhs),
                 !.first = <<lhs>>]

read_only(b, thread, vread) ==
    LET g1 == add_node(b.graph, Read(thread, vread))
        rhs == node_count(g1)
    IN [b EXCEPT !.graph = connect_previous(g1, b.last_node, rhs),
                 !.last_node = <<rhs>>,
                 !.read_nodes = Append(@, rhs),
                 !.first = <<rhs>>]

write_and_read(b, thread, vwrite, vread) ==
    LET g1 == add_node(b.graph, Write(thread, vwrite))
        lhs == node_count(g1)
        g2 == add_node(g1, Read(thread, vread))
        rhs == node_count(g2)
        g3 == connect_previous(g2, b.last_node, lhs)
    IN [b EXCEPT !.graph = update_edge(g3, rhs, lhs, "ProgramOrder"),
                 !.last_node = <<lhs>>,
                 !.write_nodes = Append(@, lhs),
                 !.read_nodes = Append(@, rhs),
                 !.first = <<lhs>>]

\* the fence node without the edges from last_node
fence_full_unchained(b, thread) ==
    LET g1 == add_node(b.graph, Fence(thread, "Full"))
    IN [b EXCEPT !.graph = g1,
                 !.last_node = <<node_count(g1)>>,
                 !.first = <<node_count(g1)>>]

fence_full(b, thread) ==
    LET g1 == add_node(b.graph, Fence(thread, "Full"))
        f == node_count(g1)
    IN [b EXCEPT !.graph = connect_previous(g1, b.last_node, f),
                 !.last_node = <<f>>,
                 !.first = <<f>>]

RECURSIVE handle_statement(_, _, _)
RECURSIVE handle_block(_, _, _, _)

\* for stmt in block { f = handle_statement(..); if first.is_none() { first = f } }
\* acc is the first non-None return value so far.
handle_block(b, block, thread, acc) ==
    IF block = <<>> \/ b.panicked THEN [b EXCEPT !.first = acc]
    ELSE LET b1 == handle_statement(b, Head(block), thread)
         IN handle_block(b1, Tail(block), thread,
                         IF acc = None THEN b1.first ELSE acc)

handle_if(b, stmt, thread) ==
    LET c == handle_condition([graph |-> b.graph, reads |-> <<>>], stmt.c, thread)
        reads == c.reads
        first == IF reads # <<>> THEN <<Head(reads)>> ELSE None
        g1 == IF reads # <<>>
              THEN connect_previous(c.graph, b.last_node, Head(reads))
              ELSE c.graph
        last1 == IF reads # <<>> THEN <<Last(reads)>> ELSE b.last_node
        condition_or_last_node == last1
        b1 == [b EXCEPT !.graph = g1, !.last_node = last1,
                        !.read_nodes = @ \o reads, !.first = None]
        \* the then branch works on its own copy of last_node
        bt == handle_block(b1, stmt.thn, thread, None)
        first_thn == bt.first
        thn_branch == bt.last_node
        be == handle_block([bt EXCEPT !.last_node = last1, !.first = None],
                           stmt.els, thread, None)
        first_els == be.first
        last2 == merge_branch(be.last_node, thn_branch)
        last3 == IF ADD_SKIP_CONNECTION THEN last2 \o condition_or_last_node
                 ELSE last2
    IN [be EXCEPT !.last_node = last3,
                  !.first = IF first # None THEN first
                            ELSE IF first_thn # None THEN first_thn \o first_els
                            ELSE first_els]

handle_while(b, stmt, thread) ==
    LET c == handle_condition([graph |-> b.graph, reads |-> <<>>], stmt.c, thread)
        reads == c.reads
        first_cond == IF reads # <<>> THEN <<Head(reads)>> ELSE None
        g1 == IF reads # <<>>
              THEN connect_previous(c.graph, b.last_node, Head(reads))
              ELSE c.graph
        last1 == IF reads # <<>> THEN <<Last(reads)>> ELSE b.last_node
        branch == last1
        bb == handle_block([b EXCEPT !.graph = g1, !.last_node = last1,
                                     !.read_nodes = @ \o reads, !.first = None],
                           stmt.body, thread, None)
        first_body == bb.first
        \* condition duplication: the duplicate reads are not moved into read_nodes
        d == handle_condition([graph |-> bb.graph, reads |-> <<>>], stmt.c, thread)
        last_read == Last(d.reads)
        gd1 == connect_previous(d.graph, bb.last_node, Head(d.reads))
        gd2 == connect_each(gd1, <<last_read>>, first_body)
    IN IF bb.panicked THEN bb
       ELSE IF first_cond # None
       THEN IF first_body # None
            THEN [bb EXCEPT !.graph = gd2,
                            !.last_node = Append(branch, last_read),
                            !.first = first_cond]
            ELSE [bb EXCEPT !.graph = connect_previous(bb.graph, bb.last_node,
                                                       Head(first_cond)),
                            !.first = first_cond]
       ELSE IF first_body # None
       THEN [bb EXCEPT !.graph = connect_each(bb.graph, bb.last_node, first_body),
                       !.last_node = @ \o branch,
                       !.first = first_body]
       ELSE [bb EXCEPT !.first = None]

handle_statement(b, stmt, thread) ==
    CASE stmt.k \in {"Assign", "Modify"} /\ stmt.e.k = "Num" ->
            IF stmt.w \in global_vars THEN write_only(b, thread, stmt.w)
            ELSE [b EXCEPT !.first = None]
      [] stmt.k \in {"Assign", "Modify"} /\ stmt.e.k = "Var" ->
            IF stmt.w \in global_vars /\ stmt.e.v \in global_vars
            THEN write_and_read(b, thread, stmt.w, stmt.e.v)
            ELSE IF stmt.w \in global_vars THEN write_only(b, thread, stmt.w)
            ELSE IF stmt.e.v \in global_vars THEN read_only(b, thread, stmt.e.v)
            ELSE [b EXCEPT !.first = None]
      [] stmt.k = "Fence" ->
            IF stmt.f = "WR" THEN fence_full(b, thread)
            ELSE [b EXCEPT !.panicked = TRUE, !.first = None]
      [] stmt.k = "If" -> handle_if(b, stmt, thread)
      [] stmt.k = "While" -> handle_while(b, stmt, thread)

(***************************************************************************)
(* The competing edges of create_aeg.  tn is thread_nodes, one             *)
(* (write_nodes, read_nodes) pair per thread.                              *)
(***************************************************************************)
\* the other threads' writes, then reads, thread by thread (j != i)
RECURSIVE other_nodes(_, _, _)
other_nodes(tn, i, j) ==
    IF j > Len(tn) THEN <<>>
    ELSE (IF j # i THEN tn[j].write_nodes \o tn[j].read_nodes ELSE <<>>)
         \o other_nodes(tn, i, j + 1)

RECURSIVE cmp_write(_, _, _)
cmp_write(g, write, others) ==
    IF others = <<>> THEN g
    ELSE cmp_write(
             IF address(g.nodes[Head(others)]) = address(g.nodes[write])
             THEN update_edge(update_edge(g, write, Head(others), "Competing"),
                              Head(others), write, "Competing")
             ELSE g,
             write, Tail(others))

RECURSIVE cmp_thread(_, _, _)
cmp_thread(g, writes, others) ==
    IF writes = <<>> THEN g
    ELSE cmp_thread(cmp_write(g, Head(writes), others), Tail(writes), others)

RECURSIVE cmp_relations(_, _, _)
cmp_relations(g, tn, i) ==
    IF i > Len(tn) THEN g
    ELSE cmp_relations(cmp_thread(g, tn[i].write_nodes, other_nodes(tn, i, 1)),
                       tn, i + 1)

\* the thread loop of create_aeg over a whole program: threads is the list
\* of the threads' statement lists
RECURSIVE create_threads(_, _, _)
create_threads(r, threads, i) ==
    IF i > Len(threads) \/ r.panicked THEN r
    ELSE LET b == handle_block([graph |-> r.graph, last_node |-> <<>>,
                                read_nodes |-> <<>>, write_nodes |-> <<>>,
                                first |-> None, panicked |-> FALSE],
                               threads[i], i, None)
         IN create_threads([graph |-> b.graph,
                            thread_nodes |-> Append(r.thread_nodes,
                                [write_nodes |-> b.write_nodes,
                                 read_nodes |-> b.read_nodes]),
                            panicked |-> b.panicked],
                           threads, i + 1)

create_aeg(threads) ==
    LET r == create_threads([graph |-> DiGraph_new, thread_nodes |-> <<>>,
                             panicked |-> FALSE], threads, 1)
    IN cmp_relations(r.graph, r.thread_nodes, 1)

(***************************************************************************)
(* Program-order queries of AbstractEventGraph (aeg.rs).                   *)
(***************************************************************************)
\* graph.edges(node): the handles of the outgoing edges, newest edge first
RECURSIVE edges_from(_, _, _)
edges_from(g, node, i) ==
    IF i = 0 THEN <<>>
    ELSE (IF g.edges[i].from = node THEN <<i>> ELSE <<>>) \o edges_from(g, node, i - 1)

edges(g, node) == edges_from(g, node, Len(g.edges))

RECURSIVE targets_of(_, _, _)
targets_of(g, es, weight) ==
    IF es = <<>> THEN <<>>
    ELSE (IF g.edges[Head(es)].weight = weight THEN <<g.edges[Head(es)].to>> ELSE <<>>)
         \o targets_of(g, Tail(es), weight)

close_po_neighbors(g, node) == targets_of(g, edges(g, node), "ProgramOrder")
close_non_po_neighbors(g, node) == targets_of(g, edges(g, node), "Competing")

\* push every successor that is not discovered yet
RECURSIVE push_undiscovered(_, _, _)
push_undiscovered(stack, succs, discovered) ==
    IF succs = <<>> THEN stack
    ELSE push_undiscovered(
             IF Head(succs) \in discovered THEN stack ELSE Append(stack, Head(succs)),
             Tail(succs), discovered)

\* the DFS of transitive_po_neighbors: the nodes in the order they are yielded
RECURSIVE po_dfs(_, _, _, _)
po_dfs(g, stack, discovered, out) ==
    IF stack = <<>> THEN out
    ELSE LET curr == Last(stack)
             rest == SubSeq(stack, 1, Len(stack) - 1)
         IN IF curr \in discovered THEN po_dfs(g, rest, discovered, out)
            ELSE po_dfs(g,
                        push_undiscovered(rest, close_po_neighbors(g, curr),
                                          discovered \cup {curr}),
                        discovered \cup {curr}, Append(out, curr))

transitive_po_neighbors(g, node) == po_dfs(g, close_po_neighbors(g, node), {}, <<>>)

\* every node of the graph as a neighbour
neighbors_any(g, node) == [n \in 1..node_count(g) |-> n]

neighbors(g, node) == close_non_po_neighbors(g, node) \o transitive_po_neighbors(g, node)

\* is_po_connected over the direct po successors alone
is_po_connected_close(g, a, b) == Contains(close_po_neighbors(g, a), b)

is_po_connected(g, a, b) == Contains(transitive_po_neighbors(g, a), b)

(***************************************************************************)
(* po_between: petgraph's astar with edge cost 0 for ProgramOrder and 100  *)
(* for Competing and a zero estimate.  visit_next is the binary heap of    *)
(* (score, node) ordered by score alone; heap positions are 0-based.       *)
(***************************************************************************)
\* the same cost for both kinds of edges
edge_cost_uniform(e) == 0

edge_cost(e) == IF e.weight = "ProgramOrder" THEN 0 ELSE 100

\* a <= b for heap entries: the entry with the lower score is the greater one
heap_le(a, b) == a.score >= b.score

\* move the entry at pos up while it is greater than its parent
RECURSIVE sift_up(_, _, _, _)
sift_up(data, start, pos, elt) ==
    IF pos > start /\ ~heap_le(elt, data[((pos - 1) \div 2) + 1])
    THEN sift_up([data EXCEPT ![pos + 1] = data[((pos - 1) \div 2) + 1]],
                 start, (pos - 1) \div 2, elt)
    ELSE [data EXCEPT ![pos + 1] = elt]

heap_push(data, item) == sift_up(Append(data, item), 0, Len(data), item)

\* move the hole at pos down to a leaf along the greater children
RECURSIVE sift_down_to_bottom(_, _, _)
sift_down_to_bottom(data, pos, elt) ==
    LET end == Len(data)
        child == 2 * pos + 1
        pick == IF heap_le(data[child + 1], data[child + 2]) THEN child + 1 ELSE child
    IN IF end >= 2 /\ child <= end - 2
       THEN sift_down_to_bottom([data EXCEPT ![pos + 1] = data[pick + 1]], pick, elt)
       ELSE IF child = end - 1
       THEN sift_up([data EXCEPT ![pos + 1] = data[child + 1]], 0, child, elt)
       ELSE sift_up(data, 0, pos, elt)

\* the heap left by BinaryHeap::pop (the popped entry is data[1])
heap_pop(data) ==
    IF Len(data) = 1 THEN <<>>
    ELSE sift_down_to_bottom(SubSeq(data, 1, Len(data) - 1), 0, Last(data))

\* the for loop over graph.edges(node) of one astar iteration
RECURSIVE astar_edges(_, _, _, _, _)
astar_edges(g, a, node, node_score, es) ==
    IF es = <<>> THEN a
    ELSE LET e == g.edges[Head(es)]
             next == e.to
             next_score == node_score + edge_cost(e)
         IN IF next \in DOMAIN a.scores /\ a.scores[next] <= next_score
            THEN astar_edges(g, a, node, node_score, Tail(es))
            ELSE astar_edges(g,
                     [a EXCEPT
                        !.scores = [n \in DOMAIN a.scores \cup {next} |->
                                       IF n = next THEN next_score ELSE a.scores[n]],
                        !.came_from = [n \in DOMAIN a.came_from \cup {next} |->
                                       IF n = next THEN node ELSE a.came_from[n]],
                        !.visit_next = heap_push(a.visit_next,
                                                 [score |-> next_score, node |-> next])],
                     node, node_score, Tail(es))

RECURSIVE reconstruct_path_to(_, _, _)
reconstruct_path_to(came_from, current, path) ==
    IF current \in DOMAIN came_from
    THEN reconstruct_path_to(came_from, came_from[current], <<came_from[current]>> \o path)
    ELSE path

RECURSIVE astar_loop(_, _, _)
astar_loop(g, a, goal) ==
    IF a.visit_next = <<>> THEN None
    ELSE LET top == a.visit_next[1]
             a1 == [a EXCEPT !.visit_next = heap_pop(a.visit_next)]
         IN IF top.node = goal
            THEN reconstruct_path_to(a.came_from, goal, <<goal>>)
            ELSE IF top.node \in DOMAIN a.estimate_scores
                    /\ a.estimate_scores[top.node] <= top.score
            THEN astar_loop(g, a1, goal)
            ELSE astar_loop(g,
                     astar_edges(g,
                         [a1 EXCEPT !.estimate_scores =
                              [n \in DOMAIN a.estimate_scores \cup {top.node} |->
                                  IF n = top.node THEN top.score
                                  ELSE a.estimate_scores[n]]],
                         top.node, a.scores[top.node], edges(g, top.node)),
                     goal)

astar(g, start, goal) ==
    astar_loop(g,
               [visit_next |-> <<[score |-> 0, node |-> start]>>,
                scores |-> (start :> 0),
                estimate_scores |-> [n \in {} |-> 0],
                came_from |-> [n \in {} |-> 0]],
               goal)

\* po_between without the is_po_connected test
po_between_unguarded(g, a, b) == astar(g, a, b)

\* the shortest program order path, None when b is not po+ reachable from a
po_between(g, a, b) ==
    IF ~is_po_connected(g, a, b) THEN None ELSE astar(g, a, b)

(***************************************************************************)
(* all_simple_po_paths(aeg, from, to, 0, None) (simple_paths.rs): the      *)
(* paths in the order the iterator yields them.  stack holds, per visited  *)
(* node, the children not yet taken.                                       *)
(***************************************************************************)
RECURSIVE simple_paths_loop(_, _, _, _, _, _, _)
simple_paths_loop(g, to, min_length, max_length, visited, stack, out) ==
    IF stack = <<>> THEN out
    ELSE LET children == Last(stack)
             below == SubSeq(stack, 1, Len(stack) - 1)
             popped == SubSeq(visited, 1, Len(visited) - 1)
         IN IF children = <<>>
            THEN simple_paths_loop(g, to, min_length, max_length, popped, below, out)
            ELSE LET child == Head(children)
                     rest == Tail(children)
                     path == Append(visited, to)
                 IN IF Len(visited) < max_length
                    THEN IF child = to
                         THEN simple_paths_loop(g, to, min_length, max_length, visited,
                                  Append(below, rest),
                                  IF Len(visited) >= min_length THEN Append(out, path)
                                  ELSE out)
                         ELSE IF ~Contains(visited, child)
                         THEN simple_paths_loop(g, to, min_length, max_length,
                                  Append(visited, child),
                                  Append(Append(below, rest), close_po_neighbors(g, child)),
                                  out)
                         ELSE simple_paths_loop(g, to, min_length, max_length, visited,
                                  Append(below, rest), out)
                    ELSE IF child = to /\ Len(visited) >= min_length
                         THEN simple_paths_loop(g, to, min_length, max_length, visited,
                                  Append(below, rest), Append(out, path))
                         ELSE IF child # to /\ Contains(rest, to)
                                 /\ Len(visited) >= min_length
                         THEN \* children.any() has consumed the children up to `to`
                              simple_paths_loop(g, to, min_length, max_length, visited,
                                  Append(below,
                                         SubSeq(rest,
                                                1 + (CHOOSE i \in 1..Len(rest) :
                                                        /\ rest[i] = to
                                                        /\ \A j \in 1..(i - 1) : rest[j] # to),
                                                Len(rest))),
                                  Append(out, path))
                         ELSE simple_paths_loop(g, to, min_length, max_length, popped,
                                                below, out)

\* all_simple_po_paths with max_length one too low
all_simple_po_paths_shorter(g, from, to) ==
    simple_paths_loop(g, to, 1, node_count(g) - 2, <<from>>,
                      <<close_po_neighbors(g, from)>>, <<>>)

all_simple_po_paths(g, from, to) ==
    simple_paths_loop(g, to, 1, node_count(g) - 1, <<from>>,
                      <<close_po_neighbors(g, from)>>, <<>>)

(***************************************************************************)
(* IncompleteMinimalCycle (critical_cycles.rs).  cycle is the node list;   *)
(* thread_accesses and memory_accesses map a thread / a memory location to *)
(* the 0-based cycle positions of its nodes.  Operations that can panic    *)
(* answer "panic" instead of "true" / "false".                             *)
(***************************************************************************)
HashMap_new == [kk \in {} |-> <<>>]

with_architecture(architecture) ==
    [cycle |-> <<>>, thread_accesses |-> HashMap_new, memory_accesses |-> HashMap_new,
     architecture |-> architecture]

\* HashMap::get
get(map, key) == IF key \in DOMAIN map THEN map[key] ELSE None

\* the push with the new value put before the others
entry_push_front(map, key, value) ==
    [kk \in DOMAIN map \cup {key} |->
        IF kk = key THEN <<value>> \o get(map, key) ELSE map[kk]]

\* map.entry(key).or_default().push(value)
entry_push(map, key, value) ==
    [kk \in DOMAIN map \cup {key} |->
        IF kk = key THEN Append(get(map, key), value) ELSE map[kk]]

\* the node of the cycle at a 0-based position
at(mc, pos) == mc.cycle[pos + 1]

cs2(mc, g, node) ==
    LET thr == g.nodes[node].thread
        addr == g.nodes[node].addr
        last == g.nodes[Last(mc.cycle)]
        first == g.nodes[Head(mc.cycle)]
    IN \/ thr \notin DOMAIN mc.thread_accesses
       \/ CASE Len(mc.thread_accesses[thr]) = 0 -> TRUE
            [] Len(mc.thread_accesses[thr]) = 1 ->
                  IF thread_name(last) = thr /\ address(last) # addr THEN TRUE
                  ELSE thread_name(first) = thr /\ address(first) # addr
            [] OTHER -> FALSE

cs3(mc, g, node) ==
    LET thr == g.nodes[node].thread
        addr == g.nodes[node].addr
        last == g.nodes[Last(mc.cycle)]
        first == g.nodes[Head(mc.cycle)]
    IN \/ addr \notin DOMAIN mc.memory_accesses
       \/ CASE Len(mc.memory_accesses[addr]) = 0 -> TRUE
            [] Len(mc.memory_accesses[addr]) \in {1, 2} ->
                  IF \E i \in Range(mc.memory_accesses[addr]) :
                        thread_name(g.nodes[at(mc, i)]) = thr
                  THEN FALSE
                  ELSE IF address(last) = addr THEN TRUE
                  ELSE address(first) = addr
            [] OTHER -> FALSE

\* can_add_node that only rejects the nodes the cycle already holds
can_add_node_duplicates_only(mc, g, node, debug_assertions) ==
    IF debug_assertions /\ mc.cycle = <<>> THEN "panic"
    ELSE IF debug_assertions /\ ~Contains(neighbors(g, Last(mc.cycle)), node)
    THEN "panic"
    ELSE IF Contains(mc.cycle, node) THEN "false"
    ELSE IF g.nodes[node].kind = "Fence" THEN "panic"
    ELSE "true"

can_add_node(mc, g, node, debug_assertions) ==
    IF debug_assertions /\ mc.cycle = <<>> THEN "panic"
    ELSE IF debug_assertions /\ ~Contains(neighbors(g, Last(mc.cycle)), node)
    THEN "panic"
    ELSE IF Contains(mc.cycle, node) THEN "false"
    ELSE IF g.nodes[node].kind = "Fence" THEN "panic"
    ELSE IF ~cs2(mc, g, node) THEN "false"
    ELSE IF cs2(mc, g, node) /\ cs3(mc, g, node) THEN "true" ELSE "false"

\* thread_accesses holds ArrayVec<usize, 2> and memory_accesses ArrayVec<usize, 3>:
\* a push onto a full ArrayVec panics
push_panics(mc, g, node) ==
    \/ Len(get(mc.thread_accesses, g.nodes[node].thread)) >= 2
    \/ Len(get(mc.memory_accesses, g.nodes[node].addr)) >= 3

\* add_node_unchecked without the two access tables
add_node_unchecked_no_tables(mc, g, node) == [mc EXCEPT !.cycle = Append(@, node)]

add_node_unchecked(mc, g, node) ==
    [mc EXCEPT
       !.thread_accesses = entry_push(@, g.nodes[node].thread, Len(mc.cycle)),
       !.memory_accesses = entry_push(@, g.nodes[node].addr, Len(mc.cycle)),
       !.cycle = Append(@, node)]

\* IncompleteMinimalCycle::add_node: the cycle afterwards and the value returned
mc_add_node(mc, g, node, debug_assertions) ==
    LET can == can_add_node(mc, g, node, debug_assertions)
    IN IF can = "false" THEN [mc |-> mc, added |-> "false"]
       ELSE IF can = "panic" \/ push_panics(mc, g, node)
       THEN [mc |-> mc, added |-> "panic"]
       ELSE [mc |-> add_node_unchecked(mc, g, node), added |-> "true"]

_edge_has_delay(mc, g, node1, node2, debug_assertions) ==
    IF \E e \in edges_connecting(g, node1, node2) : g.edges[e].weight = "Competing"
    THEN IF debug_assertions /\ ~is_po_connected(g, node1, node2) THEN "panic"
         ELSE IF mc.architecture = "Power" THEN "true"
         ELSE IF mc.architecture = "Tso" /\ g.nodes[node1].kind = "Write"
                 /\ g.nodes[node2].kind = "Read" THEN "true"
         ELSE "false"
    ELSE "false"

\* the pairs has_delay walks: windows(2), then (last, first)
cycle_pairs(cycle) ==
    [i \in 1..Len(cycle) |->
        IF i < Len(cycle) THEN <<cycle[i], cycle[i + 1]>> ELSE <<Last(cycle), Head(cycle)>>]

RECURSIVE has_delay_from(_, _, _, _)
has_delay_from(mc, g, pairs, debug_assertions) ==
    IF pairs = <<>> THEN "false"
    ELSE LET d == _edge_has_delay(mc, g, Head(pairs)[1], Head(pairs)[2], debug_assertions)
         IN IF d = "false" THEN has_delay_from(mc, g, Tail(pairs), debug_assertions)
            ELSE d

has_delay(mc, g, debug_assertions) ==
    has_delay_from(mc, g, cycle_pairs(mc.cycle), debug_assertions)

\* the adjacency test of complete on two successive positions of a table
adjacent_idx(mc, idx1, idx2) ==
    (idx2 - idx1) = 1 \/ (idx2 - idx1) = Len(mc.cycle) - 1

(***************************************************************************)
(* potential_fences: one list of edge handles per fence placement.         *)
(***************************************************************************)
\* path.windows(2).map(|pair| find_edge(pair[0], pair[1]))
path_edges(g, path) ==
    [i \in 1..(Len(path) - 1) |-> find_edge(g, path[i], path[i + 1])]

RECURSIVE paths_edges(_, _)
paths_edges(g, paths) ==
    IF paths = <<>> THEN <<>>
    ELSE <<path_edges(g, Head(paths))>> \o paths_edges(g, Tail(paths))

\* is (u, v) a pair potential_fences looks at under the architecture?
fence_pair(g, architecture, u, v) ==
    \/ architecture = "Power"
    \/ architecture = "Tso" /\ g.nodes[u].kind = "Write" /\ g.nodes[v].kind = "Read"

\* potential_fences_skip over the last simple path instead of the shortest one
RECURSIVE potential_fences_skip_last_path(_, _, _)
potential_fences_skip_last_path(g, architecture, pairs) ==
    IF pairs = <<>> THEN <<>>
    ELSE (IF fence_pair(g, architecture, Head(pairs)[1], Head(pairs)[2])
             /\ all_simple_po_paths(g, Head(pairs)[1], Head(pairs)[2]) # <<>>
          THEN path_edges(g, Last(all_simple_po_paths(g, Head(pairs)[1], Head(pairs)[2])))
          ELSE <<>>)
         \o potential_fences_skip_last_path(g, architecture, Tail(pairs))

RECURSIVE potential_fences_skip(_, _, _)
potential_fences_skip(g, architecture, pairs) ==
    IF pairs = <<>> THEN <<>>
    ELSE (IF fence_pair(g, architecture, Head(pairs)[1], Head(pairs)[2])
          THEN path_edges(g, po_between(g, Head(pairs)[1], Head(pairs)[2]))
          ELSE <<>>)
         \o potential_fences_skip(g, architecture, Tail(pairs))

RECURSIVE potential_fences_paths(_, _, _)
potential_fences_paths(g, architecture, pairs) ==
    IF pairs = <<>> THEN <<>>
    ELSE (IF fence_pair(g, architecture, Head(pairs)[1], Head(pairs)[2])
             /\ all_simple_po_paths(g, Head(pairs)[1], Head(pairs)[2]) # <<>>
          THEN <<paths_edges(g, all_simple_po_paths(g, Head(pairs)[1], Head(pairs)[2]))>>
          ELSE <<>>)
         \o potential_fences_paths(g, architecture, Tail(pairs))

\* a product that pairs every element of acc with the first element of e alone
RECURSIVE cartesian_product_first(_, _, _)
cartesian_product_first(acc, e, i) ==
    IF i > Len(acc) THEN <<>>
    ELSE <<acc[i] \o e[1]>> \o cartesian_product_first(acc, e, i + 1)

\* acc.iter().cartesian_product(e).map(|(t1, t2)| t1 ++ t2)
RECURSIVE cartesian_product(_, _, _)
cartesian_product(acc, e, i) ==
    IF i > Len(acc) THEN <<>>
    ELSE [j \in 1..Len(e) |-> acc[i] \o e[j]] \o cartesian_product(acc, e, i + 1)

RECURSIVE fold_product(_, _)
fold_product(acc, lists) ==
    IF lists = <<>> THEN acc
    ELSE fold_product(cartesian_product(acc, Head(lists), 1), Tail(lists))

potential_fences(g, cfg, cycle) ==
    IF cfg.skip_branches
    THEN <<potential_fences_skip(g, cfg.architecture, cycle_pairs(cycle))>>
    ELSE fold_product(<< <<>> >>,
                      potential_fences_paths(g, cfg.architecture, cycle_pairs(cycle)))

CriticalCycle(cycle, pf) == [cycle |-> cycle, potential_fences |-> pf]

\* the critical cycles of a closed cycle, or panicked when an assertion fails
complete(mc, g, cfg) ==
    LET d == has_delay(mc, g, cfg.debug_assertions)
        pfs == potential_fences(g, cfg, mc.cycle)
        none == [panicked |-> FALSE, cycles |-> <<>>]
    IN IF d = "panic" THEN [panicked |-> TRUE, cycles |-> <<>>]
       ELSE IF d = "false" THEN none
       ELSE IF \E t \in DOMAIN mc.thread_accesses :
                  /\ Len(mc.thread_accesses[t]) = 2
                  /\ ~adjacent_idx(mc, mc.thread_accesses[t][1], mc.thread_accesses[t][2])
       THEN none
       ELSE IF \E m \in DOMAIN mc.memory_accesses :
                  \/ /\ Len(mc.memory_accesses[m]) = 2
                     /\ ~adjacent_idx(mc, mc.memory_accesses[m][1], mc.memory_accesses[m][2])
                  \/ /\ Len(mc.memory_accesses[m]) = 3
                     /\ \/ ~adjacent_idx(mc, mc.memory_accesses[m][1],
                                         mc.memory_accesses[m][2])
                        \/ ~adjacent_idx(mc, mc.memory_accesses[m][2],
                                         mc.memory_accesses[m][3])
       THEN none
       ELSE [panicked |-> FALSE,
             cycles |-> [i \in 1..Len(pfs) |-> CriticalCycle(mc.cycle, pfs[i])]]

(***************************************************************************)
(* The DFS of critical_cycles from one start node.  d holds the stack,     *)
(* the discovered set, the cycles found so far and whether a panic         *)
(* stopped the search.                                                     *)
(***************************************************************************)
\* for succ in aeg.neighbors(node) { ... }
RECURSIVE expand(_, _, _, _, _, _)
expand(d, g, cfg, explored, cycle, succs) ==
    IF succs = <<>> \/ d.panicked THEN d
    ELSE LET succ == Head(succs)
             can == can_add_node(cycle, g, succ, cfg.debug_assertions)
             found == complete(cycle, g, cfg)
         IN IF succ \in explored THEN expand(d, g, cfg, explored, cycle, Tail(succs))
            ELSE IF can = "panic" THEN [d EXCEPT !.panicked = TRUE]
            ELSE IF can = "true"
            THEN IF push_panics(cycle, g, succ) THEN [d EXCEPT !.panicked = TRUE]
                 ELSE expand([d EXCEPT !.stack =
                                  Append(@, add_node_unchecked(cycle, g, succ))],
                             g, cfg, explored, cycle, Tail(succs))
            ELSE IF Head(cycle.cycle) = succ /\ Len(cycle.cycle) > 2
            THEN IF found.panicked THEN [d EXCEPT !.panicked = TRUE]
                 ELSE expand([d EXCEPT !.inner_cycles = @ \o found.cycles],
                             g, cfg, explored, cycle, Tail(succs))
            ELSE expand(d, g, cfg, explored, cycle, Tail(succs))

\* the iteration without the !explored.contains(&succ) test
dfs_step_any_succ(d, g, cfg, explored) ==
    LET cycle == Last(d.stack)
        d1 == [d EXCEPT !.stack = SubSeq(@, 1, Len(@) - 1)]
    IN IF cycle \in d.discovered THEN d1
       ELSE expand([d1 EXCEPT !.discovered = @ \cup {cycle}],
                   g, cfg, {}, cycle, neighbors(g, Last(cycle.cycle)))

\* one iteration of `while let Some(cycle) = stack.pop()`
dfs_step(d, g, cfg, explored) ==
    LET cycle == Last(d.stack)
        d1 == [d EXCEPT !.stack = SubSeq(@, 1, Len(@) - 1)]
    IN IF cycle \in d.discovered THEN d1
       ELSE expand([d1 EXCEPT !.discovered = @ \cup {cycle}],
                   g, cfg, explored, cycle, neighbors(g, Last(cycle.cycle)))

RECURSIVE dfs_run(_, _, _, _)
dfs_run(d, g, cfg, explored) ==
    IF d.stack = <<>> \/ d.panicked THEN d
    ELSE dfs_run(dfs_step(d, g, cfg, explored), g, cfg, explored)

\* the loop over the start nodes that stops after the first start node
start_nodes_first_only(r, g, cfg, start_node) ==
    IF start_node > node_count(g) THEN r
    ELSE LET mc == with_architecture(cfg.architecture)
             was_added == can_add_node(mc, g, start_node, cfg.debug_assertions)
             d == dfs_run([stack |-> <<add_node_unchecked(mc, g, start_node)>>,
                           discovered |-> {}, inner_cycles |-> <<>>,
                           panicked |-> FALSE],
                          g, cfg, r.explored)
         IN IF was_added = "panic" THEN [r EXCEPT !.panicked = TRUE]
            ELSE IF d.panicked
            THEN [r EXCEPT !.panicked = TRUE, !.discovered = d.discovered]
            ELSE [all_cycles |-> r.all_cycles \o d.inner_cycles,
                  discovered |-> d.discovered,
                  explored |-> r.explored \cup {start_node},
                  panicked |-> FALSE]

\* for start_node in aeg.graph.node_indices() { ... }: r holds all_cycles, the
\* discovered set of the last DFS, explored and whether a panic stopped the run
RECURSIVE start_nodes(_, _, _, _)
start_nodes(r, g, cfg, start_node) ==
    IF start_node > node_count(g) \/ r.panicked THEN r
    ELSE LET mc == with_architecture(cfg.architecture)
             was_added == can_add_node(mc, g, start_node, cfg.debug_assertions)
             d == dfs_run([stack |-> <<add_node_unchecked(mc, g, start_node)>>,
                           discovered |-> {}, inner_cycles |-> <<>>,
                           panicked |-> FALSE],
                          g, cfg, r.explored)
         IN IF was_added = "panic" THEN [r EXCEPT !.panicked = TRUE]
            ELSE IF d.panicked
            THEN [r EXCEPT !.panicked = TRUE, !.discovered = d.discovered]
            ELSE start_nodes([all_cycles |-> r.all_cycles \o d.inner_cycles,
                              discovered |-> d.discovered,
                              explored |-> r.explored \cup {start_node},
                              panicked |-> FALSE],
                             g, cfg, start_node + 1)

critical_cycles(g, cfg) ==
    start_nodes([all_cycles |-> <<>>, discovered |-> {}, explored |-> {},
                 panicked |-> FALSE],
                g, cfg, 1)

(***************************************************************************)
(* The statements the model draws from.                                    *)
(***************************************************************************)
Names == {"x", "y", "a"}

Exprs == {Num(1)} \cup {Var(v) : v \in Names}

SimpleStmts ==
    {Assign(w, e) : w \in Names, e \in Exprs}
    \cup {Modify("x", e) : e \in Exprs}
    \cup {FenceStmt(f) : f \in FenceType}

CondSet ==
    { Eq(Num(1), Num(1)),
      Neg(Leq(Var("a"), Var("y"))),
      And(Eq(Var("x"), Num(1)), Leq(Var("y"), Var("a"))) }

BlockStmts ==
    { Assign("x", Num(1)), Assign("a", Var("y")), Assign("a", Num(1)),
      FenceStmt("WR"), FenceStmt("RR") }

RECURSIVE Blocks(_)
Blocks(n) ==
    IF n = 0 THEN {<<>>}
    ELSE Blocks(n - 1)
         \cup {Append(blk, s) : blk \in Blocks(n - 1), s \in BlockStmts}

FlatStmts ==
    {If(c, thn, els) : c \in CondSet, thn \in Blocks(MaxBlock), els \in Blocks(MaxBlock)}
    \cup {While(c, body) : c \in CondSet, body \in Blocks(MaxBlock)}

\* if and while statements nested in a branch or a loop body
NestedStmts ==
    { If(Eq(Var("x"), Num(1)),
         <<While(Eq(Var("y"), Num(1)), <<Assign("x", Num(1))>>)>>, <<>>),
      If(Eq(Num(1), Num(1)),
         <<Assign("y", Num(1))>>,
         <<If(Leq(Var("a"), Var("x")), <<>>, <<Assign("a", Var("y"))>>)>>),
      While(Eq(Var("a"), Num(1)),
            <<If(Eq(Var("x"), Num(1)), <<Assign("y", Num(1))>>, <<Assign("x", Num(1))>>)>>),
      While(Leq(Var("y"), Num(1)),
            <<While(Eq(Num(1), Num(1)), <<Assign("a", Var("x"))>>)>>) }

CompoundStmts == FlatStmts \cup NestedStmts

StmtSet == SimpleStmts \cup CompoundStmts

\* the straight-line statements of the programs whose critical cycles are enumerated
CycleStmts ==
    {Assign(w, Num(1)) : w \in {"x", "y"}}
    \cup {Assign("a", Var(v)) : v \in {"x", "y"}}
    \cup {Assign("z", Var("x"))}

\* the statements of the programs with fences and branches whose critical
\* cycles are enumerated
ProgramStmts ==
    {Assign(w, Num(1)) : w \in {"x", "y"}}
    \cup {Assign("a", Var(v)) : v \in {"x", "y"}}
    \cup { FenceStmt("WR"),
           If(Eq(Num(1), Num(1)), <<Assign("z", Num(1))>>, <<>>) }

\* the statements of the fence-free programs with while loops whose
\* critical cycles are enumerated
LoopStmts ==
    {Assign(w, Num(1)) : w \in {"x", "y"}}
    \cup {Assign("a", Var(v)) : v \in {"x", "y"}}
    \cup { While(Eq(Var("x"), Num(1)), <<Assign("y", Num(1))>>),
           While(Eq(Var("y"), Num(1)), <<Assign("x", Num(1))>>),
           While(Eq(Num(1), Num(1)), <<Assign("x", Num(1)), Assign("a", Var("y"))>>) }

\* does the statement mention a global or a fence?
RECURSIVE cond_globals(_)
cond_globals(cond) ==
    CASE cond.k = "Neg" -> cond_globals(cond.c1)
      [] cond.k = "And" -> cond_globals(cond.c1) \/ cond_globals(cond.c2)
      [] OTHER -> \/ (cond.e1.k = "Var" /\ cond.e1.v \in global_vars)
                  \/ (cond.e2.k = "Var" /\ cond.e2.v \in global_vars)

RECURSIVE stmt_globals(_)
stmt_globals(stmt) ==
    CASE stmt.k \in {"Assign", "Modify"} ->
            stmt.w \in global_vars \/ (stmt.e.k = "Var" /\ stmt.e.v \in global_vars)
      [] stmt.k = "Fence" -> TRUE
      [] stmt.k = "If" ->
            \/ cond_globals(stmt.c)
            \/ \E i \in 1..Len(stmt.thn) : stmt_globals(stmt.thn[i])
            \/ \E i \in 1..Len(stmt.els) : stmt_globals(stmt.els[i])
      [] stmt.k = "While" ->
            \/ cond_globals(stmt.c)
            \/ \E i \in 1..Len(stmt.body) : stmt_globals(stmt.body[i])

(***************************************************************************)
(* The interpreter (src/interpreter): State with its memory and the write  *)
(* buffers of the threads, and simulate_instruction.  A HashMap is a       *)
(* function on the keys it holds; the instruction pointer ip is the Vec of *)
(* run_threads, ip[d + 1] here being ip[d] there.                          *)
(***************************************************************************)
MemoryModel == {"Sc", "Tso"}

\* HashMap::insert
insert(map, key, value) ==
    [k \in DOMAIN map \cup {key} |-> IF k = key THEN value ELSE map[k]]

\* State::new
State_new(memory_model) ==
    [memory_model |-> memory_model, global_variables |-> {},
     memory |-> <<>>, write_buffers |-> <<>>]

is_global(s, x) == x \in s.global_variables

write_init(s, x, value) ==
    [s EXCEPT !.global_variables = @ \cup {x},
              !.memory = insert(@, x, value)]

\* State::write
write(s, x, value, thread) ==
    IF s.memory_model = "Sc" THEN [s EXCEPT !.memory = insert(@, x, value)]
    ELSE IF thread \in DOMAIN s.write_buffers
         THEN [s EXCEPT !.write_buffers[thread] = Append(@, <<x, value>>)]
         ELSE s

\* format!("{thread}.{x}")
local_key(thread, x) == thread \o "." \o x

write_local(s, thread, x, value) ==
    [s EXCEPT !.memory = insert(@, local_key(thread, x), value)]

\* State::read: both arms read the memory
read(s, x) == IF x \in DOMAIN s.memory THEN s.memory[x] ELSE 0

read_local(s, thread, x) == read(s, local_key(thread, x))

\* flush_single_write_buffer taking the newest entry of the buffer
flush_single_newest(s, tname) ==
    IF tname \in DOMAIN s.write_buffers /\ s.write_buffers[tname] # <<>>
    THEN LET buffer == s.write_buffers[tname]
             result == buffer[Len(buffer)]
         IN [state |-> [s EXCEPT !.write_buffers[tname] =
                                     SubSeq(buffer, 1, Len(buffer) - 1),
                                 !.memory = insert(@, result[1], result[2])],
             flushed |-> TRUE]
    ELSE [state |-> s, flushed |-> FALSE]

\* State::flush_single_write_buffer: buffer.pop_front() into the memory
flush_single_write_buffer(s, tname) ==
    IF tname \in DOMAIN s.write_buffers /\ s.write_buffers[tname] # <<>>
    THEN LET result == Head(s.write_buffers[tname])
         IN [state |-> [s EXCEPT !.write_buffers[tname] = Tail(@),
                                 !.memory = insert(@, result[1], result[2])],
             flushed |-> TRUE]
    ELSE [state |-> s, flushed |-> FALSE]

\* State::flush_write_buffer: while self.flush_single_write_buffer(..) {}
RECURSIVE flush_write_buffer(_, _)
flush_write_buffer(s, tname) ==
    LET r == flush_single_write_buffer(s, tname)
    IN IF r.flushed THEN flush_write_buffer(r.state, tname) ELSE r.state

\* init(&program.init, state)
RECURSIVE init(_, _)
init(statements, s) ==
    IF statements = <<>> THEN s
    ELSE LET statement == Head(statements)
             value == IF statement.e.k = "Num" THEN statement.e.n
                      ELSE read(s, statement.e.v)
         IN init(Tail(statements), write_init(s, statement.w, value))

\* evaluate_expression, for names without a '.'
evaluate_expression(expr, s, tname) ==
    IF expr.k = "Num" THEN expr.n
    ELSE IF local_key(tname, expr.v) \in DOMAIN s.memory
         THEN read_local(s, tname, expr.v)
         ELSE read(s, expr.v)

\* evaluate_cond_expression: Neg, And and Eq are the arms it has
RECURSIVE evaluate_cond_expression(_, _, _)
evaluate_cond_expression(expr, s, tname) ==
    CASE expr.k = "Neg" -> ~evaluate_cond_expression(expr.c1, s, tname)
      [] expr.k = "And" -> /\ evaluate_cond_expression(expr.c1, s, tname)
                           /\ evaluate_cond_expression(expr.c2, s, tname)
      [] expr.k = "Eq" -> evaluate_expression(expr.e1, s, tname)
                          = evaluate_expression(expr.e2, s, tname)

\* ip.push(value) and ip.pop()
ip_push(ip, value) == Append(ip, value)
ip_pop(ip) == SubSeq(ip, 1, Len(ip) - 1)

RECURSIVE simulate_instruction(_, _, _, _, _)

\* simulate_instruction(instruction, thread_name, state, ip, d): the state and
\* the instruction pointer after the call, the value returned, and whether an
\* index was out of bounds
simulate_instruction(instruction, tname, s, ip, d) ==
    CASE instruction.k = "Modify" ->
            LET value == evaluate_expression(instruction.e, s, tname)
            IN [state |-> IF is_global(s, instruction.w)
                          THEN write(s, instruction.w, value, tname)
                          ELSE write_local(s, tname, instruction.w, value),
                ip |-> ip, cont |-> TRUE, panicked |-> FALSE]
      [] instruction.k = "Assign" ->
            LET value == evaluate_expression(instruction.e, s, tname)
            IN [state |-> write_local(s, tname, instruction.w, value),
                ip |-> ip, cont |-> TRUE, panicked |-> FALSE]
      [] instruction.k = "Fence" ->
            [state |-> IF instruction.f = "WR"
                       THEN flush_write_buffer(s, tname) ELSE s,
             ip |-> ip, cont |-> TRUE, panicked |-> FALSE]
      [] instruction.k = "If" ->
            IF Len(ip) > d
            THEN LET thn == instruction.thn
                     els == instruction.els
                     in_thn == ip[d + 1] < Len(thn)
                     branch == IF in_thn THEN thn ELSE els
                     offset == IF in_thn THEN ip[d + 1] ELSE ip[d + 1] - Len(thn)
                     end == IF in_thn THEN Len(thn) ELSE Len(thn) + Len(els)
                 IN IF offset >= Len(branch)
                    THEN [state |-> s, ip |-> ip, cont |-> FALSE, panicked |-> TRUE]
                    ELSE LET r == simulate_instruction(branch[offset + 1], tname,
                                                       s, ip, d + 1)
                             ip1 == [r.ip EXCEPT ![d + 1] = @ + 1]
                         IN IF r.panicked \/ ~r.cont THEN [r EXCEPT !.cont = FALSE]
                            ELSE IF ip1[d + 1] = end
                            THEN [r EXCEPT !.ip = ip_pop(ip1), !.cont = TRUE]
                            ELSE [r EXCEPT !.ip = ip1, !.cont = FALSE]
            ELSE [state |-> s,
                  ip |-> IF evaluate_cond_expression(instruction.c, s, tname)
                         THEN ip_push(ip, 0)
                         ELSE ip_push(ip, Len(instruction.thn)),
                  cont |-> FALSE, panicked |-> FALSE]
      [] instruction.k = "While" ->
            IF Len(ip) > d
            THEN IF ip[d + 1] = Len(instruction.body)
                 THEN IF evaluate_cond_expression(instruction.c, s, tname)
                      THEN [state |-> s, ip |-> [ip EXCEPT ![d + 1] = 0],
                            cont |-> FALSE, panicked |-> FALSE]
                      ELSE [state |-> s, ip |-> ip_pop(ip),
                            cont |-> TRUE, panicked |-> FALSE]
                 ELSE LET r == simulate_instruction(instruction.body[ip[d + 1] + 1],
                                                    tname, s, ip, d + 1)
                      IN IF r.panicked THEN r
                         ELSE IF r.cont
                         THEN [r EXCEPT !.ip[d + 1] = @ + 1, !.cont = FALSE]
                         ELSE [r EXCEPT !.cont = FALSE]
            ELSE IF evaluate_cond_expression(instruction.c, s, tname)
                 THEN [state |-> s, ip |-> ip_push(ip, 0),
                       cont |-> FALSE, panicked |-> FALSE]
                 ELSE [state |-> s, ip |-> ip, cont |-> TRUE, panicked |-> FALSE]

\* Vec::swap_remove(idx), idx counted from 0
swap_remove(v, idx) ==
    LET moved == [v EXCEPT ![idx + 1] = v[Len(v)]]
    IN SubSeq(moved, 1, Len(v) - 1)

\* the turn with the buffer of a thread flushed when the thread ends
run_threads_turn_flushing(threads, s, active, ips, idx, flush) ==
    LET thread_idx == active[idx + 1]
        t == threads[thread_idx + 1]
    IN IF ips[thread_idx + 1][1] < Len(t.instructions)
       THEN LET r == simulate_instruction(t.instructions[ips[thread_idx + 1][1] + 1],
                                          t.name, s, ips[thread_idx + 1], 1)
                ip1 == IF r.cont THEN [r.ip EXCEPT ![1] = @ + 1] ELSE r.ip
                s1 == IF r.state.memory_model = "Tso" /\ flush
                      THEN flush_single_write_buffer(r.state, t.name).state
                      ELSE r.state
                ended == ip1[1] >= Len(t.instructions)
            IN [state |-> IF ended THEN flush_write_buffer(s1, t.name) ELSE s1,
                ip |-> [ips EXCEPT ![thread_idx + 1] = ip1],
                active_threads |-> IF ended THEN swap_remove(active, idx) ELSE active,
                panicked |-> r.panicked]
       ELSE [state |-> s, ip |-> ips, active_threads |-> active, panicked |-> FALSE]

\* one turn of the while loop of run_threads, for the entry idx of
\* active_threads and the outcome flush of the 25% draw
run_threads_turn(threads, s, active, ips, idx, flush) ==
    LET thread_idx == active[idx + 1]
        t == threads[thread_idx + 1]
    IN IF ips[thread_idx + 1][1] < Len(t.instructions)
       THEN LET r == simulate_instruction(t.instructions[ips[thread_idx + 1][1] + 1],
                                          t.name, s, ips[thread_idx + 1], 1)
                ip1 == IF r.cont THEN [r.ip EXCEPT ![1] = @ + 1] ELSE r.ip
                s1 == IF r.state.memory_model = "Tso" /\ flush
                      THEN flush_single_write_buffer(r.state, t.name).state
                      ELSE r.state
            IN [state |-> s1,
                ip |-> [ips EXCEPT ![thread_idx + 1] = ip1],
                active_threads |-> IF ip1[1] >= Len(t.instructions)
                                   THEN swap_remove(active, idx) ELSE active,
                panicked |-> r.panicked]
       ELSE [state |-> s, ip |-> ips, active_threads |-> active, panicked |-> FALSE]

(***************************************************************************)
(* State.                                                                  *)
(***************************************************************************)
VARIABLES
    pc,            \* where the analysis stands
    graph,         \* the AEG under construction, then the finished AEG
    thread_nodes,  \* create_aeg: (write_nodes, read_nodes) of the finished threads
    thread,        \* create_aeg: the thread being emitted
    nstmts,        \* create_aeg: statements of that thread handled so far
    last_node,     \* create_aeg: predecessors of the next event
    read_nodes,    \* create_aeg: reads of the current thread
    write_nodes,   \* create_aeg: writes of the current thread
    only_locals,   \* no statement handled so far mentions a global or a fence
    config,        \* AegConfig, and whether debug assertions are compiled in
    discovered,    \* critical_cycles: the cycles expanded by the last DFS
    explored,      \* critical_cycles: start nodes that are finished
    all_cycles,    \* critical_cycles: the critical cycles returned
    program,       \* execute: the program that is run
    state,         \* execute: the interpreter's State
    active_threads,\* run_threads: the indices of the threads still running
    ip             \* run_threads: the instruction pointers of the threads

build_vars == <<graph, thread_nodes, thread, nstmts, last_node, read_nodes,
                write_nodes, only_locals>>
cycle_vars == <<discovered, explored, all_cycles>>
run_vars == <<program, state, active_threads, ip>>
vars == <<pc, build_vars, config, cycle_vars, run_vars>>

Architecture == {"Tso", "Power"}
AegConfig_default ==
    [architecture |-> "Tso", skip_branches |-> TRUE, debug_assertions |-> FALSE]
Configs == [architecture : Architecture, skip_branches : BOOLEAN,
            debug_assertions : BOOLEAN]

Init ==
    /\ pc = "threads"
    /\ graph = DiGraph_new
    /\ thread_nodes = <<>>
    /\ thread = 0
    /\ nstmts = 0
    /\ last_node = <<>>
    /\ read_nodes = <<>>
    /\ write_nodes = <<>>
    /\ only_locals = TRUE
    /\ config = AegConfig_default
    /\ discovered = {}
    /\ explored = {}
    /\ all_cycles = <<>>
    /\ program = [init |-> <<>>, threads |-> <<>>]
    /\ state = State_new("Sc")
    /\ active_threads = <<>>
    /\ ip = <<>>

\* the thread loop with last_node declared outside of it
BeginThread_keeps_last_node(n) ==
    /\ pc = "threads"
    /\ Len(thread_nodes) < n
    /\ thread' = Len(thread_nodes) + 1
    /\ nstmts' = 0
    /\ read_nodes' = <<>>
    /\ write_nodes' = <<>>
    /\ pc' = "stmts"
    /\ UNCHANGED <<run_vars, graph, thread_nodes, last_node, only_locals, config, cycle_vars>>

\* for thread in &program.threads { let mut last_node = vec![]; ... }
BeginThreadUpTo(n) ==
    /\ pc = "threads"
    /\ Len(thread_nodes) < n
    /\ thread' = Len(thread_nodes) + 1
    /\ nstmts' = 0
    /\ last_node' = <<>>
    /\ read_nodes' = <<>>
    /\ write_nodes' = <<>>
    /\ pc' = "stmts"
    /\ UNCHANGED <<run_vars, graph, thread_nodes, only_locals, config, cycle_vars>>

\* for stmt in &thread.instructions { handle_statement(..) }, one statement of S
HandleStatementFrom(S) ==
    /\ pc = "stmts"
    /\ nstmts < MaxStmts
    /\ \E stmt \in S :
         /\ stmt.k \in {"If", "While"} => node_count(graph) <= MaxBefore
         /\ \E b \in {handle_statement(
                         [graph |-> graph, last_node |-> last_node,
                          read_nodes |-> read_nodes, write_nodes |-> write_nodes,
                          first |-> None, panicked |-> FALSE],
                         stmt, thread)} :
            /\ node_count(b.graph) <= MaxNodes
            /\ graph' = b.graph
            /\ last_node' = b.last_node
            /\ read_nodes' = b.read_nodes
            /\ write_nodes' = b.write_nodes
            /\ pc' = IF b.panicked THEN "panicked" ELSE "stmts"
            /\ only_locals' = (only_locals /\ ~stmt_globals(stmt))
    /\ nstmts' = nstmts + 1
    /\ UNCHANGED <<run_vars, thread_nodes, thread, config, cycle_vars>>

\* one statement of ProgramStmts
HandleProgramStatement ==
    /\ pc = "stmts"
    /\ nstmts < MaxProgramStmts
    /\ \E stmt \in ProgramStmts :
         \E b \in {handle_statement(
                      [graph |-> graph, last_node |-> last_node,
                       read_nodes |-> read_nodes, write_nodes |-> write_nodes,
                       first |-> None, panicked |-> FALSE],
                      stmt, thread)} :
            /\ node_count(b.graph) <= MaxProgramNodes
            /\ graph' = b.graph
            /\ last_node' = b.last_node
            /\ read_nodes' = b.read_nodes
            /\ write_nodes' = b.write_nodes
            /\ pc' = IF b.panicked THEN "panicked" ELSE "stmts"
            /\ only_locals' = (only_locals /\ ~stmt_globals(stmt))
    /\ nstmts' = nstmts + 1
    /\ UNCHANGED <<run_vars, thread_nodes, thread, config, cycle_vars>>

\* one statement of LoopStmts
HandleLoopStatement ==
    /\ pc = "stmts"
    /\ nstmts < MaxLoopStmts
    /\ \E stmt \in LoopStmts :
         \E b \in {handle_statement(
                      [graph |-> graph, last_node |-> last_node,
                       read_nodes |-> read_nodes, write_nodes |-> write_nodes,
                       first |-> None, panicked |-> FALSE],
                      stmt, thread)} :
            /\ node_count(b.graph) <= MaxLoopNodes
            /\ graph' = b.graph
            /\ last_node' = b.last_node
            /\ read_nodes' = b.read_nodes
            /\ write_nodes' = b.write_nodes
            /\ pc' = IF b.panicked THEN "panicked" ELSE "stmts"
            /\ only_locals' = (only_locals /\ ~stmt_globals(stmt))
    /\ nstmts' = nstmts + 1
    /\ UNCHANGED <<run_vars, thread_nodes, thread, config, cycle_vars>>

BeginThread == BeginThreadUpTo(MaxThreads)

BeginLoopThread == BeginThreadUpTo(MaxLoopThreads)

BeginProgramThread == BeginThreadUpTo(MaxProgramThreads)

BeginBuildThread == BeginThreadUpTo(MaxBuildThreads)

HandleStatement == HandleStatementFrom(CycleStmts)

HandleAnyStatement == HandleStatementFrom(StmtSet)

\* thread_nodes.push((write_nodes, read_nodes))
EndThread ==
    /\ pc = "stmts"
    /\ thread_nodes' = Append(thread_nodes,
                              [write_nodes |-> write_nodes, read_nodes |-> read_nodes])
    /\ pc' = "threads"
    /\ UNCHANGED <<run_vars, graph, thread, nstmts, last_node, read_nodes, write_nodes,
                   only_locals, config, cycle_vars>>

\* create_aeg: the cmp relations, after the last thread
CreateAeg ==
    /\ pc = "threads"
    /\ graph' = cmp_relations(graph, thread_nodes, 1)
    /\ pc' = "built"
    /\ UNCHANGED <<run_vars, thread_nodes, thread, nstmts, last_node, read_nodes, write_nodes,
                   only_locals, config, cycle_vars>>

\* AbstractEventGraph::with_config
WithConfig ==
    /\ pc = "built"
    /\ \E c \in Configs : config' = c
    /\ pc' = "aeg"
    /\ UNCHANGED <<run_vars, build_vars, cycle_vars>>

\* critical_cycles(&aeg)
CriticalCycles ==
    /\ pc = "aeg"
    /\ \E r \in {critical_cycles(graph, config)} :
          /\ pc' = IF r.panicked THEN "panicked" ELSE "done"
          /\ discovered' = r.discovered
          /\ explored' = r.explored
          /\ all_cycles' = r.all_cycles
    /\ UNCHANGED <<run_vars, build_vars, config>>

Next ==
    \/ BeginThread
    \/ HandleStatement
    \/ EndThread
    \/ CreateAeg
    \/ WithConfig
    \/ CriticalCycles

Spec == Init /\ [][Next]_vars

\* create_aeg alone, over programs with if and while statements
BuildNext ==
    \/ BeginBuildThread
    \/ HandleAnyStatement
    \/ EndThread
    \/ CreateAeg

SpecBuild == Init /\ [][BuildNext]_vars

\* create_aeg and critical_cycles over two-thread programs with fences and
\* if statements
ProgramNext ==
    \/ BeginProgramThread
    \/ HandleProgramStatement
    \/ EndThread
    \/ CreateAeg
    \/ WithConfig
    \/ CriticalCycles

SpecProgram == Init /\ [][ProgramNext]_vars

\* create_aeg and critical_cycles over fence-free two-thread programs with
\* while loops
LoopNext ==
    \/ BeginLoopThread
    \/ HandleLoopStatement
    \/ EndThread
    \/ CreateAeg
    \/ WithConfig
    \/ CriticalCycles

SpecLoop == Init /\ [][LoopNext]_vars

(***************************************************************************)
(* The interpreter run: execute(program, memory_model) up to the end of    *)
(* run_threads.  The scheduler's draws, the thread to run and the 25%      *)
(* flush, are the choices of RunThreadsTurn.                               *)
(***************************************************************************)
RunGlobals == {"x", "y"}

\* let x: u32 = 10; let y: u32 = 20;
RunInits == <<Assign("x", Num(10)), Assign("y", Num(20))>>

RunStmts ==
    { Modify("x", Num(100)), Modify("x", Num(200)), Modify("y", Var("x")),
      Assign("a", Var("y")), FenceStmt("WR"),
      If(Eq(Var("x"), Num(10)),
         <<Modify("y", Num(1)), Modify("x", Num(2))>>, <<Assign("a", Num(3))>>),
      If(Eq(Var("y"), Num(20)), <<Assign("a", Num(1))>>, <<>>),
      While(Eq(Var("y"), Num(20)), <<Modify("y", Num(1)), FenceStmt("WW")>>) }

RECURSIVE RunBlocks(_)
RunBlocks(n) ==
    IF n = 1 THEN {<<s>> : s \in RunStmts}
    ELSE RunBlocks(n - 1)
         \cup {Append(blk, s) : blk \in RunBlocks(n - 1), s \in RunStmts}

RunThreadSets ==
    {<<[name |-> "t1", instructions |-> b]>> : b \in RunBlocks(MaxRunStmts)}
    \cup {<<[name |-> "t1", instructions |-> b1], [name |-> "t2", instructions |-> b2]>> :
             b1 \in RunBlocks(MaxRunStmts), b2 \in RunBlocks(1)}

RunInit ==
    /\ pc = "execute"
    /\ graph = DiGraph_new
    /\ thread_nodes = <<>>
    /\ thread = 0
    /\ nstmts = 0
    /\ last_node = <<>>
    /\ read_nodes = <<>>
    /\ write_nodes = <<>>
    /\ only_locals = TRUE
    /\ config = AegConfig_default
    /\ discovered = {}
    /\ explored = {}
    /\ all_cycles = <<>>
    /\ program \in {[init |-> RunInits, threads |-> ts] : ts \in RunThreadSets}
    /\ state \in {State_new(m) : m \in MemoryModel}
    /\ active_threads = <<>>
    /\ ip = <<>>

\* execute: init(&program.init, &mut state)
ExecuteInit ==
    /\ pc = "execute"
    /\ state' = init(program.init, state)
    /\ pc' = "run_threads"
    /\ UNCHANGED <<program, active_threads, ip, build_vars, config, cycle_vars>>

\* run_threads up to its while loop: the threads are all active, the
\* instruction pointers are [0] and every thread gets an empty write buffer
RunThreadsBegin ==
    /\ pc = "run_threads"
    /\ active_threads' = [i \in 1..Len(program.threads) |-> i - 1]
    /\ ip' = [i \in 1..Len(program.threads) |-> <<0>>]
    /\ state' = [state EXCEPT !.write_buffers =
                    [n \in {program.threads[i].name : i \in 1..Len(program.threads)}
                        |-> <<>>]]
    /\ pc' = IF Len(program.threads) = 0 THEN "returned" ELSE "running"
    /\ UNCHANGED <<program, build_vars, config, cycle_vars>>

\* one turn of while !active_threads.is_empty() { .. }
RunThreadsTurn ==
    /\ pc = "running"
    /\ \E idx \in 0..(Len(active_threads) - 1), flush \in BOOLEAN :
          \E r \in {run_threads_turn(program.threads, state, active_threads, ip,
                                     idx, flush)} :
             /\ \A n \in DOMAIN r.state.write_buffers :
                   Len(r.state.write_buffers[n]) <= MaxBuffer
             /\ state' = r.state
             /\ ip' = r.ip
             /\ active_threads' = r.active_threads
             /\ pc' = IF r.panicked THEN "panicked"
                      ELSE IF r.active_threads = <<>> THEN "returned"
                      ELSE "running"
    /\ UNCHANGED <<program, build_vars, config, cycle_vars>>

RunNext ==
    \/ ExecuteInit
    \/ RunThreadsBegin
    \/ RunThreadsTurn

SpecRun == RunInit /\ [][RunNext]_vars

(***************************************************************************)
(* The vocabulary of the properties, stated on the graph alone: edges,     *)
(* po+ reachability, closed walks and the three conditions CS1, CS2, CS3   *)
(* of a critical cycle.  Positions in a cycle are 1-based here.            *)
(***************************************************************************)
HasEdge(g, u, v, weight) ==
    \E e \in 1..Len(g.edges) :
        g.edges[e].from = u /\ g.edges[e].to = v /\ g.edges[e].weight = weight

Weighted(g, weight) == {e \in 1..Len(g.edges) : g.edges[e].weight = weight}

PoSuccessors(g, S) ==
    {g.edges[e].to : e \in {i \in Weighted(g, "ProgramOrder") : g.edges[i].from \in S}}

RECURSIVE PoClosure(_, _)
PoClosure(g, S) ==
    IF PoSuccessors(g, S) \subseteq S THEN S
    ELSE PoClosure(g, S \cup PoSuccessors(g, S))

\* v is reachable from u by one or more ProgramOrder edges
PoReachable(g, u, v) == v \in PoClosure(g, PoSuccessors(g, {u}))

Neighbor(g, u, v) == HasEdge(g, u, v, "Competing") \/ PoReachable(g, u, v)

Succ(cyc, i) == IF i = Len(cyc) THEN 1 ELSE i + 1

Distinct(cyc) == \A i, j \in 1..Len(cyc) : i # j => cyc[i] # cyc[j]

IsClosedWalk(g, cyc) == \A i \in 1..Len(cyc) : Neighbor(g, cyc[i], cyc[Succ(cyc, i)])

IsDelay(g, architecture, u, v) ==
    /\ PoReachable(g, u, v)
    /\ ~HasEdge(g, u, v, "Competing")
    /\ architecture = "Tso" => g.nodes[u].kind = "Write" /\ g.nodes[v].kind = "Read"

SatisfiesCS1(g, architecture, cyc) ==
    \E i \in 1..Len(cyc) : IsDelay(g, architecture, cyc[i], cyc[Succ(cyc, i)])

\* the positions form one run of the ring 1..Len(cyc)
IsRun(cyc, P) ==
    \/ P = {}
    \/ \E s \in 1..Len(cyc) :
          P = {((s - 1 + k) % Len(cyc)) + 1 : k \in 0..(Cardinality(P) - 1)}

PositionsOfThread(g, cyc, t) == {i \in 1..Len(cyc) : g.nodes[cyc[i]].thread = t}
PositionsOfAddress(g, cyc, m) == {i \in 1..Len(cyc) : g.nodes[cyc[i]].addr = m}

SatisfiesCS2(g, cyc) ==
    \A t \in {g.nodes[cyc[i]].thread : i \in 1..Len(cyc)} :
        /\ Cardinality(PositionsOfThread(g, cyc, t)) <= 2
        /\ IsRun(cyc, PositionsOfThread(g, cyc, t))
        /\ \A i, j \in PositionsOfThread(g, cyc, t) :
              i # j => g.nodes[cyc[i]].addr # g.nodes[cyc[j]].addr

SatisfiesCS3(g, cyc) ==
    \A m \in {g.nodes[cyc[i]].addr : i \in 1..Len(cyc)} :
        /\ Cardinality(PositionsOfAddress(g, cyc, m)) <= 3
        /\ IsRun(cyc, PositionsOfAddress(g, cyc, m))
        /\ \A i, j \in PositionsOfAddress(g, cyc, m) :
              i # j => g.nodes[cyc[i]].thread # g.nodes[cyc[j]].thread

IsRotation(a, b) ==
    /\ Len(a) = Len(b)
    /\ \E k \in 0..(Len(a) - 1) :
          \A i \in 1..Len(a) : a[i] = b[((i - 1 + k) % Len(a)) + 1]

\* the simple walks from a node through nodes of a higher index
RECURSIVE WalksFrom(_, _)
WalksFrom(g, walk) ==
    {walk} \cup
    UNION {WalksFrom(g, Append(walk, v)) :
              v \in {n \in node_indices(g) :
                        /\ n > Head(walk)
                        /\ ~Contains(walk, n)
                        /\ Neighbor(g, Last(walk), n)}}

\* every critical cycle of the graph, once, from its lowest node
CriticalWalks(g, architecture) ==
    {cyc \in UNION {WalksFrom(g, <<n>>) : n \in node_indices(g)} :
        /\ Len(cyc) >= 3
        /\ IsClosedWalk(g, cyc)
        /\ SatisfiesCS1(g, architecture, cyc)
        /\ SatisfiesCS2(g, cyc)
        /\ SatisfiesCS3(g, cyc)}

FenceFree(g) == \A n \in node_indices(g) : g.nodes[n].kind # "Fence"

Returned(cyc) == \E i \in 1..Len(all_cycles) : IsRotation(all_cycles[i].cycle, cyc)

Cycles == {all_cycles[i].cycle : i \in 1..Len(all_cycles)}

(***************************************************************************)
(* The critical cycle enumerator.                                          *)
(***************************************************************************)
\* C1: critical_cycles is complete.  On a fence-free AEG, under Tso and under
\* Power, every closed walk of three or more distinct nodes that satisfies
\* CS1, CS2 and CS3 is returned in some rotation, the cycles whose three
\* accesses to one location wrap around the start node included.
C1_Complete ==
    (pc = "done" /\ FenceFree(graph)) =>
        \A cyc \in CriticalWalks(graph, config.architecture) : Returned(cyc)

\* C1 under Power alone, where every cycle that crosses threads passes
\* has_delay: a critical cycle is then lost only by the position test of complete.
C1_Complete_Power ==
    (pc = "done" /\ FenceFree(graph) /\ config.architecture = "Power") =>
        \A cyc \in CriticalWalks(graph, "Power") : Returned(cyc)

\* C2: every returned cycle satisfies CS1: some cyclically consecutive pair
\* (u, v) has v po+ reachable from u and is a delay of the architecture (Tso:
\* a Write followed by a Read, Power: any such pair).
C2_CS1 ==
    pc = "done" =>
        \A cyc \in Cycles : SatisfiesCS1(graph, config.architecture, cyc)

\* C3: every returned cycle satisfies CS2: a thread owns at most two nodes of
\* the cycle, and two nodes of one thread are cyclically adjacent and access
\* different memory locations.
C3_CS2 == pc = "done" => \A cyc \in Cycles : SatisfiesCS2(graph, cyc)

\* a returned cycle whose first and last node belong to one thread
C3_Witness ==
    /\ pc = "done"
    /\ \E cyc \in Cycles :
          graph.nodes[Head(cyc)].thread = graph.nodes[Last(cyc)].thread

\* C4: every returned cycle satisfies CS3: a memory location is accessed by at
\* most three nodes of the cycle, which form one cyclically contiguous run and
\* belong to pairwise different threads.
C4_CS3 == pc = "done" => \A cyc \in Cycles : SatisfiesCS3(graph, cyc)

\* a returned cycle with three accesses to one location
C4_Witness ==
    /\ pc = "done"
    /\ \E cyc \in Cycles :
          \E m \in global_vars : Cardinality(PositionsOfAddress(graph, cyc, m)) = 3

EmptyCycle == with_architecture(config.architecture)

\* C5: every returned cycle has at least three events and pairwise distinct
\* nodes: adding a start node to an empty incomplete cycle succeeds, a node
\* already in the cycle is not added again, and a cycle is closed only on its
\* first node and with more than two nodes.
C5_Cycles ==
    /\ pc = "aeg" =>
          \A n \in node_indices(graph) :
              can_add_node(EmptyCycle, graph, n, config.debug_assertions) = "true"
    /\ pc = "done" =>
          /\ \A cyc \in Cycles : Len(cyc) >= 3 /\ Distinct(cyc)
          /\ \A mc \in discovered :
                /\ Distinct(mc.cycle)
                /\ \A n \in Range(mc.cycle) :
                      can_add_node(mc, graph, n, config.debug_assertions) = "false"

\* C6: in every returned CriticalCycle, with and without skip_branches and
\* under both architectures, every handle in potential_fences is an edge of
\* the AEG labelled ProgramOrder.
C6_PotentialFences ==
    pc = "done" =>
        \A i \in 1..Len(all_cycles) :
            \A k \in 1..Len(all_cycles[i].potential_fences) :
                /\ all_cycles[i].potential_fences[k] \in 1..edge_count(graph)
                /\ graph.edges[all_cycles[i].potential_fences[k]].weight = "ProgramOrder"

\* a returned cycle with a pair that is po+ connected through a third node,
\* and fences reported for it
C6_Witness ==
    /\ pc = "done"
    /\ config.skip_branches
    /\ \E i \in 1..Len(all_cycles) :
          /\ Len(all_cycles[i].potential_fences) >= 2
          /\ \E p \in 1..Len(all_cycles[i].cycle) :
                LET u == all_cycles[i].cycle[p]
                    v == all_cycles[i].cycle[Succ(all_cycles[i].cycle, p)]
                IN /\ PoReachable(graph, u, v)
                   /\ ~HasEdge(graph, u, v, "ProgramOrder")

\* the AEG of t1 { x = 1; let a = y; } t2 { y = 1; let b = x; }
StoreBuffer ==
    graph.nodes = <<Write(1, "x"), Read(1, "y"), Write(2, "y"), Read(2, "x")>>

\* C10: the store buffer program has 4 nodes, 2 ProgramOrder edges and 4
\* Competing edges; under Tso critical_cycles returns exactly one cycle whose
\* potential fences are the two edges Wx -> Ry and Wy -> Rx, and under Power
\* it returns exactly one cycle.
C10_StoreBuffer ==
    (pc = "done" /\ StoreBuffer) =>
        /\ node_count(graph) = 4
        /\ Cardinality(Weighted(graph, "ProgramOrder")) = 2
        /\ Cardinality(Weighted(graph, "Competing")) = 4
        /\ Len(all_cycles) = 1
        /\ config.architecture = "Tso" =>
              /\ Len(all_cycles[1].potential_fences) = 2
              /\ Range(all_cycles[1].potential_fences)
                    = {find_edge(graph, 1, 2), find_edge(graph, 3, 4)}

\* the AEG of t1 { x = 1; Fence(WR); let a = y; } t2 { y = 1; let b = x; }
FencedStoreBuffer ==
    graph.nodes = <<Write(1, "x"), Fence(1, "Full"), Read(1, "y"),
                    Write(2, "y"), Read(2, "x")>>

\* C11: the fenced store buffer program is analysed without failure: create_aeg
\* builds its AEG and, in a build without debug assertions, critical_cycles
\* completes normally and returns no critical cycle.
C11_Fenced ==
    (FencedStoreBuffer /\ ~config.debug_assertions
        /\ pc \notin {"threads", "stmts", "built", "aeg"}) =>
        /\ pc = "done"
        /\ all_cycles = <<>>

\* the AEG of t1 { x = 1; y = 2; x = 3; } t2 { let b = y; let d = x; }
SerializedWrites ==
    graph.nodes = <<Write(1, "x"), Write(1, "y"), Write(1, "x"),
                    Read(2, "y"), Read(2, "x")>>

\* C12: for the serialized writes program under Power with skip_branches,
\* critical_cycles returns exactly 2 critical cycles, both starting at the
\* first write to x: one through Wy, Ry and Rx, and one through the second
\* write to x of the same thread and the read of x.
C12_SerializedWrites ==
    (pc = "done" /\ SerializedWrites /\ config.architecture = "Power"
        /\ config.skip_branches) =>
        /\ Len(all_cycles) = 2
        /\ \A cyc \in Cycles : Head(cyc) = 1
        /\ \E cyc \in Cycles : Range(cyc) = {1, 2, 4, 5}
        /\ \E cyc \in Cycles : Range(cyc) = {1, 3, 5}

(***************************************************************************)
(* The AEG builder.                                                        *)
(***************************************************************************)
IsAccess(n) == n.kind \in {"Read", "Write"}

\* u and v are accesses of two threads to one location, one of them a Write
Compete(g, u, v) ==
    /\ IsAccess(g.nodes[u]) /\ IsAccess(g.nodes[v])
    /\ g.nodes[u].thread # g.nodes[v].thread
    /\ g.nodes[u].addr = g.nodes[v].addr
    /\ g.nodes[u].kind = "Write" \/ g.nodes[v].kind = "Write"

\* C7: after create_aeg a Competing edge u -> v exists if and only if u and v
\* are Read/Write nodes of two different threads that access the same memory
\* location, at least one of them a Write.
C7_Competing ==
    pc = "built" =>
        \A u, v \in node_indices(graph) :
            HasEdge(graph, u, v, "Competing") <=> Compete(graph, u, v)

\* C8: every ProgramOrder edge connects two nodes of the same thread, for any
\* nesting of if and while and any number of threads.
C8_ProgramOrder ==
    \A e \in Weighted(graph, "ProgramOrder") :
        graph.nodes[graph.edges[e].from].thread = graph.nodes[graph.edges[e].to].thread

\* a finished AEG of several threads with program order in a later thread
C8_Witness ==
    /\ pc = "built"
    /\ \E e \in Weighted(graph, "ProgramOrder") : graph.nodes[graph.edges[e].from].thread >= 2
    /\ \E e \in Weighted(graph, "ProgramOrder") : graph.nodes[graph.edges[e].from].thread = 1

\* C9: a Read/Write node is emitted only for an access to a name of
\* global_vars; statements and conditions over locals and constants emit
\* nothing, so a program whose threads only use locals, or that has no thread,
\* has no node and no edge.
C9_Globals ==
    /\ \A n \in node_indices(graph) :
          IsAccess(graph.nodes[n]) => graph.nodes[n].addr \in global_vars
    /\ only_locals => graph = DiGraph_new

\* a finished AEG of a program whose threads have statements over locals only
C9_Witness ==
    /\ pc = "built"
    /\ only_locals
    /\ Len(thread_nodes) >= 2
    /\ nstmts = MaxStmts

(***************************************************************************)
(* The program order oracle.                                               *)
(***************************************************************************)
\* is_po_connected as a table over the nodes of the finished AEG
PoConnected ==
    [u \in node_indices(graph), v \in node_indices(graph) |->
        is_po_connected(graph, u, v)]

Transitive(conn) ==
    \A u, v, w \in node_indices(graph) : (conn[u, v] /\ conn[v, w]) => conn[u, w]

\* C13 as stated: on every AEG create_aeg produces, programs with while loops
\* included, is_po_connected(u, u) is false for every node u and
\* is_po_connected is transitive.
C13_Irreflexive ==
    pc = "built" =>
        \A conn \in {PoConnected} :
            /\ \A u \in node_indices(graph) : ~conn[u, u]
            /\ Transitive(conn)

\* C13, amended: is_po_connected(u, v) holds exactly when v is reachable from u
\* by one or more ProgramOrder edges, so it is transitive, and
\* is_po_connected(u, u) holds exactly for the nodes on a cycle of ProgramOrder
\* edges (the back edges of a while loop).
C13_PoConnected ==
    pc = "built" =>
        \A conn \in {PoConnected} :
            /\ \A u \in node_indices(graph) :
                  {v \in node_indices(graph) : conn[u, v]}
                      = PoClosure(graph, PoSuccessors(graph, {u}))
            /\ Transitive(conn)

\* a finished AEG with a node on a program order cycle and a chain u, v, w of
\* three distinct po+ connected nodes
C13_Witness ==
    /\ pc = "built"
    /\ \E conn \in {PoConnected} :
          /\ \E u \in node_indices(graph) : conn[u, u]
          /\ \E u, v, w \in node_indices(graph) :
                /\ u # v /\ v # w /\ u # w
                /\ conn[u, v] /\ conn[v, w]
                /\ ~HasEdge(graph, u, w, "ProgramOrder")

\* the simple paths that extend walk to v over ProgramOrder edges
RECURSIVE SimplePoPathsFrom(_, _, _)
SimplePoPathsFrom(g, walk, v) ==
    IF Last(walk) = v THEN {walk}
    ELSE UNION {SimplePoPathsFrom(g, Append(walk, n), v) :
                   n \in {m \in PoSuccessors(g, {Last(walk)}) : ~Contains(walk, m)}}

SimplePoPaths(g, u, v) == SimplePoPathsFrom(g, <<u>>, v)

\* C14: for distinct nodes u and v, all_simple_po_paths(u, v, 0, None) yields
\* exactly the simple paths from u to v over ProgramOrder edges, each once.
C14_SimplePaths ==
    pc = "built" =>
        \A u, v \in node_indices(graph) :
            u # v =>
                \A paths \in {all_simple_po_paths(graph, u, v)} :
                    /\ Range(paths) = SimplePoPaths(graph, u, v)
                    /\ Distinct(paths)

\* a finished AEG with three simple po paths between two nodes (an if with
\* its skip edge) or with two of them across the back edge of a while loop
C14_Witness ==
    /\ pc = "built"
    /\ \E u, v \in node_indices(graph) :
          /\ u # v
          /\ Len(all_simple_po_paths(graph, u, v)) >= 3
    /\ \E u, v \in node_indices(graph) :
          /\ u # v /\ PoReachable(graph, v, v)
          /\ Len(all_simple_po_paths(graph, u, v)) = 2

\* the least number of edges of a path over ProgramOrder edges from u to v
MinPoEdges(g, u, v) ==
    CHOOSE n \in 1..node_count(g) :
        /\ \E path \in SimplePoPaths(g, u, v) : Len(path) = n + 1
        /\ \A path \in SimplePoPaths(g, u, v) : Len(path) >= n + 1

\* path runs from u to v over ProgramOrder edges
IsPoPath(g, path, u, v) ==
    /\ Len(path) >= 2
    /\ Head(path) = u
    /\ Last(path) = v
    /\ \A i \in 1..(Len(path) - 1) : HasEdge(g, path[i], path[i + 1], "ProgramOrder")

RecordsOf(cyc) == {i \in 1..Len(all_cycles) : all_cycles[i].cycle = cyc}

\* the handle of the ProgramOrder edge u -> v
PoEdge(g, u, v) ==
    CHOOSE e \in Weighted(g, "ProgramOrder") : g.edges[e].from = u /\ g.edges[e].to = v

EdgesOf(g, path) == [i \in 1..(Len(path) - 1) |-> PoEdge(g, path[i], path[i + 1])]

\* is the pair at position i of cyc a pair fences are derived for?
IsFencePair(g, architecture, cyc, i) ==
    /\ PoReachable(g, cyc[i], cyc[Succ(cyc, i)])
    /\ architecture = "Tso" =>
          g.nodes[cyc[i]].kind = "Write" /\ g.nodes[cyc[Succ(cyc, i)]].kind = "Read"

\* the program order paths from u to v with the least number of edges
ShortestPaths(g, u, v) ==
    {p \in SimplePoPaths(g, u, v) : \A q \in SimplePoPaths(g, u, v) : Len(p) <= Len(q)}

\* the fence lists that take one path per fence pair, from position i of the
\* cycle on: any simple po path, or a shortest one
RECURSIVE FenceChoices(_, _, _, _, _)
FenceChoices(g, architecture, cyc, i, shortest) ==
    IF i > Len(cyc) THEN {<<>>}
    ELSE IF IsFencePair(g, architecture, cyc, i)
    THEN {EdgesOf(g, p) \o rest :
             p \in IF shortest THEN ShortestPaths(g, cyc[i], cyc[Succ(cyc, i)])
                   ELSE SimplePoPaths(g, cyc[i], cyc[Succ(cyc, i)]),
             rest \in FenceChoices(g, architecture, cyc, i + 1, shortest)}
    ELSE FenceChoices(g, architecture, cyc, i + 1, shortest)

\* the product of the numbers of simple po paths of the fence pairs
RECURSIVE PathProduct(_, _, _, _)
PathProduct(g, architecture, cyc, i) ==
    IF i > Len(cyc) THEN 1
    ELSE (IF IsFencePair(g, architecture, cyc, i)
          THEN Cardinality(SimplePoPaths(g, cyc[i], cyc[Succ(cyc, i)]))
          ELSE 1)
         * PathProduct(g, architecture, cyc, i + 1)

\* C16: without skip_branches the number of CriticalCycle records of a
\* completed cycle is the product, over its po connected delay pairs, of the
\* number of simple po paths of the pair; the records carry the same node
\* sequence, and their potential_fences are the concatenations, in cycle
\* order, of the edges of one path per pair, each combination once.
C16_CartesianProduct ==
    (pc = "done" /\ ~config.skip_branches) =>
        \A cyc \in Cycles :
            /\ Cardinality(RecordsOf(cyc))
                  = PathProduct(graph, config.architecture, cyc, 1)
            /\ {all_cycles[i].potential_fences : i \in RecordsOf(cyc)}
                  = FenceChoices(graph, config.architecture, cyc, 1, FALSE)
            /\ \A i, j \in RecordsOf(cyc) :
                  i # j => all_cycles[i].potential_fences # all_cycles[j].potential_fences

\* a cycle returned with four records: two fence pairs with two simple po
\* paths each
C16_Witness ==
    /\ pc = "done"
    /\ ~config.skip_branches
    /\ \E cyc \in Cycles :
          /\ Cardinality(RecordsOf(cyc)) = 4
          /\ \E i \in 1..Len(cyc) :
                Cardinality(SimplePoPaths(graph, cyc[i], cyc[Succ(cyc, i)])) = 2

RECURSIVE CondReadCount(_)
CondReadCount(cond) ==
    CASE cond.k = "Neg" -> CondReadCount(cond.c1)
      [] cond.k = "And" -> CondReadCount(cond.c1) + CondReadCount(cond.c2)
      [] OTHER -> (IF cond.e1.k = "Var" /\ cond.e1.v \in global_vars THEN 1 ELSE 0)
                  + (IF cond.e2.k = "Var" /\ cond.e2.v \in global_vars THEN 1 ELSE 0)

\* the builder state of the current thread
Builder ==
    [graph |-> graph, last_node |-> last_node, read_nodes |-> read_nodes,
     write_nodes |-> write_nodes, first |-> None, panicked |-> FALSE]

PoPredecessors(g, n) == {u \in node_indices(g) : HasEdge(g, u, n, "ProgramOrder")}

IfStmts == {stmt \in CompoundStmts : stmt.k = "If"}

\* handle_statement on If(cond, thn, els) from the builder state b: bc is the
\* state after the condition, bt after the then branch, be after the else
\* branch, next after one more event
IfHandled(b, stmt, t) ==
    LET r == handle_statement(b, stmt, t)
        k == CondReadCount(stmt.c)
        branchPoint == IF k > 0 THEN <<node_count(b.graph) + k>> ELSE b.last_node
        bc == [handle_statement(b, If(stmt.c, <<>>, <<>>), t)
                  EXCEPT !.last_node = branchPoint, !.first = None]
        bt == handle_block(bc, stmt.thn, t, None)
        be == handle_block([bt EXCEPT !.last_node = branchPoint, !.first = None],
                           stmt.els, t, None)
        next == handle_statement(r, Assign("x", Num(1)), t)
    IN ~r.panicked =>
          /\ Range(r.last_node)
                = Range(bt.last_node) \cup Range(be.last_node) \cup Range(branchPoint)
          /\ \A f \in Range(bt.first) \cup Range(be.first) :
                Range(branchPoint) \subseteq PoPredecessors(r.graph, f)
          /\ PoPredecessors(next.graph, node_count(next.graph)) = Range(r.last_node)

\* Fig. 9 and 10: t1 { a = 0; x = 42; if (1 == 1) { y = 1; } else { a = z; } x = 1; }
\* t2 { b = y; c = z; d = x; }
Fig9 ==
    create_aeg(<< << Assign("a", Num(0)), Assign("x", Num(42)),
                     If(Eq(Num(1), Num(1)), <<Assign("y", Num(1))>>,
                        <<Assign("a", Var("z"))>>),
                     Assign("x", Num(1)) >>,
                  << Assign("a", Var("y")), Assign("a", Var("z")),
                     Assign("a", Var("x")) >> >>)

\* C18: after If(cond, thn, els) the predecessor list of the next event is
\* the ends of the then branch, the ends of the else branch and the branch
\* point (the last condition read, or the predecessors before the if when the
\* condition reads no global); the first event of each branch is a po
\* successor of every branch point node, and the event after the if gets a po
\* edge from each of them.  The program of Fig. 9 and 10 has 7 nodes, 7
\* ProgramOrder edges and 6 Competing edges.
C18_If ==
    /\ (pc = "stmts" /\ node_count(graph) <= MaxBefore) =>
          \A stmt \in IfStmts : IfHandled(Builder, stmt, thread)
    /\ pc = "built" =>
          /\ node_count(Fig9) = 7
          /\ Cardinality(Weighted(Fig9, "ProgramOrder")) = 6 + 1
          /\ Cardinality(Weighted(Fig9, "Competing")) = 6
          /\ HasEdge(Fig9, 1, 4, "ProgramOrder")

\* the builder has handled an if with a condition read and two branches: the
\* predecessors of the next event are the else end, the then end and the
\* condition read
C18_Witness ==
    /\ pc = "stmts"
    /\ Len(last_node) = 3
    /\ Cardinality(Range(last_node)) = 3
    /\ graph.nodes[last_node[3]].kind = "Read"
    /\ HasEdge(graph, last_node[3], last_node[1], "ProgramOrder")
    /\ HasEdge(graph, last_node[3], last_node[2], "ProgramOrder")

WhileStmts == {stmt \in CompoundStmts : stmt.k = "While"}

\* the nodes from..to are reads of thread t chained by ProgramOrder edges
IsReadChain(g, from, to, t) ==
    /\ \A n \in from..to : g.nodes[n].kind = "Read" /\ g.nodes[n].thread = t
    /\ \A n \in from..(to - 1) : HasEdge(g, n, n + 1, "ProgramOrder")

\* handle_statement on While(cond, body) from the builder state b, for a
\* condition with k > 0 reads and a body that emits an event: the condition
\* reads are the nodes n0+1..n0+k, the body the nodes up to nb and the
\* duplicate reads nb+1..nb+k.  exit is the node of the original chain the
\* next statement is chained to.
WhileHandled(b, stmt, t, exit_first) ==
    LET r == handle_statement(b, stmt, t)
        k == CondReadCount(stmt.c)
        n0 == node_count(b.graph)
        bc == [handle_statement(b, If(stmt.c, <<>>, <<>>), t)
                  EXCEPT !.last_node = <<n0 + k>>, !.first = None]
        bb == handle_block(bc, stmt.body, t, None)
        nb == node_count(bb.graph)
    IN (k > 0 /\ nb > n0 + k /\ ~r.panicked) =>
          /\ node_count(r.graph) = nb + k
          /\ SubSeq(r.graph.nodes, 1, nb) = bb.graph.nodes
          /\ IsReadChain(r.graph, n0 + 1, n0 + k, t)
          /\ PoPredecessors(r.graph, n0 + 1) = Range(b.last_node)
          /\ \A f \in Range(bb.first) : HasEdge(r.graph, n0 + k, f, "ProgramOrder")
          /\ IsReadChain(r.graph, nb + 1, nb + k, t)
          /\ \A i \in 1..k : r.graph.nodes[nb + i] = r.graph.nodes[n0 + i]
          /\ PoPredecessors(r.graph, nb + 1) = Range(bb.last_node)
          /\ \A f \in Range(bb.first) : HasEdge(r.graph, nb + k, f, "ProgramOrder")
          /\ Range(r.last_node) = {IF exit_first THEN n0 + 1 ELSE n0 + k, nb + k}

\* x = 32; while (x == 0) { y = 1; y = 2; } z = 1;
WhileExample ==
    create_aeg(<< << Assign("x", Num(32)),
                     While(Eq(Var("x"), Num(0)),
                           <<Assign("y", Num(1)), Assign("y", Num(2))>>),
                     Assign("z", Num(1)) >> >>)

WhileExampleCounts ==
    /\ node_count(WhileExample) = 6
    /\ Cardinality(Weighted(WhileExample, "ProgramOrder")) = 7

\* C19 as stated: for While(cond, body) with a condition that reads a global
\* and a body that emits an event, the condition reads form a po chain after
\* the predecessors, the body follows the last condition read, a second copy
\* of the condition reads is entered from every body end and jumps back to
\* the first event of the body, and the next statement is chained to the
\* first condition read of the original chain and the last read of the copy.
C19_While ==
    /\ (pc = "stmts" /\ node_count(graph) <= MaxBefore) =>
          \A stmt \in WhileStmts : WhileHandled(Builder, stmt, thread, TRUE)
    /\ pc = "built" => WhileExampleCounts

\* C19, amended: as above, but the next statement is chained to the last
\* condition read of the original chain and the last read of the copy.
C19_WhileLastRead ==
    /\ (pc = "stmts" /\ node_count(graph) <= MaxBefore) =>
          \A stmt \in WhileStmts : WhileHandled(Builder, stmt, thread, FALSE)
    /\ pc = "built" => WhileExampleCounts

\* the builder has handled a while with two condition reads and a body event:
\* the next event is chained to the second read of the original chain and to
\* the last duplicate read, which lies on the loop
C19_Witness ==
    /\ pc = "stmts"
    /\ Len(last_node) = 2
    /\ last_node[1] > 1
    /\ IsReadChain(graph, last_node[1] - 1, last_node[1], thread)
    /\ IsReadChain(graph, last_node[2] - 1, last_node[2], thread)
    /\ last_node[1] < last_node[2] - 2
    /\ PoReachable(graph, last_node[2], last_node[2])
    /\ ~PoReachable(graph, last_node[1], last_node[1])

\* does the statement hold, at any depth, a fence other than Fence(WR)?
RECURSIVE HasUnsupportedFence(_)
HasUnsupportedFence(stmt) ==
    CASE stmt.k = "Fence" -> stmt.f # "WR"
      [] stmt.k = "If" ->
            \/ \E i \in 1..Len(stmt.thn) : HasUnsupportedFence(stmt.thn[i])
            \/ \E i \in 1..Len(stmt.els) : HasUnsupportedFence(stmt.els[i])
      [] stmt.k = "While" ->
            \E i \in 1..Len(stmt.body) : HasUnsupportedFence(stmt.body[i])
      [] OTHER -> FALSE

\* the statements handle_statement is applied to in the current state
StmtsHere == IF node_count(graph) <= MaxBefore THEN StmtSet ELSE SimpleStmts

\* handle_statement on Fence(WR) from the builder state b
FenceHandled(b, t) ==
    \A r \in {handle_statement(b, FenceStmt("WR"), t)} :
        /\ ~r.panicked
        /\ r.graph.nodes = Append(b.graph.nodes, Fence(t, "Full"))
        /\ \A e \in 1..Len(r.graph.edges) :
              e > Len(b.graph.edges) =>
                  /\ r.graph.edges[e].weight = "ProgramOrder"
                  /\ r.graph.edges[e].to = node_count(r.graph)
        /\ SubSeq(r.graph.edges, 1, Len(b.graph.edges)) = b.graph.edges
        /\ PoPredecessors(r.graph, node_count(r.graph)) = Range(b.last_node)
        /\ r.last_node = <<node_count(r.graph)>>

\* C20: create_aeg fails if and only if a statement of a thread is, at any
\* nesting depth, a fence of kind WW, RW or RR; Fence(WR) never fails and
\* emits exactly one Fence(thread, Full) node with a po edge from every node
\* of last_node, after which last_node is that node alone.
C20_Fences ==
    /\ pc = "stmts" =>
          /\ \A stmt \in StmtsHere :
                handle_statement(Builder, stmt, thread).panicked
                    <=> HasUnsupportedFence(stmt)
          /\ FenceHandled(Builder, thread)
    /\ pc \in {"stmts", "threads", "built"} =>
          \A n \in node_indices(graph) :
              graph.nodes[n].kind = "Fence" => graph.nodes[n].addr = "Full"

\* the builder has handled a Fence(WR) that follows an if: the fence node has
\* several po predecessors and is the only predecessor of the next event
C20_Witness ==
    /\ pc = "stmts"
    /\ Len(last_node) = 1
    /\ graph.nodes[last_node[1]] = Fence(thread, "Full")
    /\ Cardinality(PoPredecessors(graph, last_node[1])) >= 2

(***************************************************************************)
(* Termination of the enumerator.                                          *)
(***************************************************************************)
\* C21: critical_cycles terminates on every fence-free AEG, also when while
\* back edges make the program order cyclic: the call returns, in a build
\* without debug assertions it returns normally after the DFS of every start
\* node has emptied its stack, every incomplete cycle it expanded has
\* pairwise distinct nodes, and transitive_po_neighbors yields every node at
\* most once.
C21_Terminates ==
    /\ (pc = "aeg" /\ FenceFree(graph)) =>
          /\ \A r \in {critical_cycles(graph, config)} :
                /\ r.panicked <=> (config.debug_assertions /\ node_count(graph) > 0)
                /\ ~r.panicked => r.explored = node_indices(graph)
          /\ \A u \in node_indices(graph) :
                \A ns \in {transitive_po_neighbors(graph, u)} :
                    Distinct(ns) /\ Range(ns) \subseteq node_indices(graph)
    /\ (pc = "panicked" /\ FenceFree(graph)) => config.debug_assertions
    /\ pc = "done" =>
          /\ explored = node_indices(graph)
          /\ \A mc \in discovered : Distinct(mc.cycle)

\* critical_cycles has returned on an AEG with a program order cycle, with a
\* critical cycle through a node of the loop
C21_Witness ==
    /\ pc = "done"
    /\ explored = node_indices(graph)
    /\ \E cyc \in Cycles : \E i \in 1..Len(cyc) : PoReachable(graph, cyc[i], cyc[i])

(***************************************************************************)
(* The builder on assignments and on the remaining while loops.            *)
(***************************************************************************)
\* the assignments x := y of a global to a global
GlobalCopies ==
    {stmt \in SimpleStmts :
        stmt.k \in {"Assign", "Modify"} /\ stmt.e.k = "Var"
        /\ stmt.w \in global_vars /\ stmt.e.v \in global_vars}

\* C22: for x := y with x and y global the builder emits Read(thread, y) with
\* a po edge from every node of last_node, then Write(thread, x) with the po
\* edge Read -> Write, and sets last_node to the Write alone: the Read is
\* created before the Write and is po-after the events before the statement.
C22_GlobalCopy ==
    pc = "stmts" =>
        \A stmt \in GlobalCopies :
            \A r \in {handle_statement(Builder, stmt, thread)} :
                LET rd == node_count(graph) + 1
                    wr == node_count(graph) + 2
                IN /\ node_count(r.graph) = node_count(graph) + 2
                   /\ r.graph.nodes[rd] = Read(thread, stmt.e.v)
                   /\ r.graph.nodes[wr] = Write(thread, stmt.w)
                   /\ PoPredecessors(r.graph, rd) = Range(last_node)
                   /\ HasEdge(r.graph, rd, wr, "ProgramOrder")
                   /\ r.last_node = <<wr>>

\* handle_statement on While(cond, body) from the builder state b, for a
\* condition that reads no global and a body that emits an event: bb is the
\* builder after the body alone.  With self_edges a body end that is also a
\* first event of the body is expected to carry an edge to itself.
WhileBodyOnly(b, stmt, t, self_edges) ==
    CondReadCount(stmt.c) = 0 =>
       \A r \in {handle_statement(b, stmt, t)} :
       \A bb \in {handle_block([b EXCEPT !.first = None], stmt.body, t, None)} :
          (node_count(bb.graph) > node_count(b.graph) /\ ~r.panicked) =>
             /\ r.graph.nodes = bb.graph.nodes
             /\ SubSeq(r.graph.edges, 1, Len(bb.graph.edges)) = bb.graph.edges
             /\ \A e \in Range(bb.last_node) : \A f \in Range(bb.first) :
                   (self_edges \/ e # f) => HasEdge(r.graph, e, f, "ProgramOrder")
             /\ \A i \in (Len(bb.graph.edges) + 1)..Len(r.graph.edges) :
                   /\ r.graph.edges[i].weight = "ProgramOrder"
                   /\ r.graph.edges[i].from \in Range(bb.last_node)
                   /\ r.graph.edges[i].to \in Range(bb.first)
             /\ self_edges
                   \/ \A e \in node_indices(r.graph) :
                         ~HasEdge(r.graph, e, e, "ProgramOrder")
             /\ Range(r.last_node) = Range(bb.last_node) \cup Range(b.last_node)

\* x = 32; while (a == 0) { y = 1; a = y; } z = 1;
WhileNoCondition ==
    create_aeg(<< << Assign("x", Num(32)),
                     While(Eq(Var("a"), Num(0)),
                           <<Assign("y", Num(1)), Assign("a", Var("y"))>>),
                     Assign("z", Num(1)) >> >>)

WhileNoConditionEdges ==
    \A g \in {WhileNoCondition} :
       /\ g.nodes = <<Write(1, "x"), Write(1, "y"), Read(1, "y"), Write(1, "z")>>
       /\ Weighted(g, "Competing") = {}
       /\ {<<g.edges[e].from, g.edges[e].to>> : e \in Weighted(g, "ProgramOrder")}
             = {<<1, 2>>, <<2, 3>>, <<3, 2>>, <<1, 4>>, <<3, 4>>}
       /\ Cardinality(Weighted(g, "ProgramOrder")) = 5

\* C23 as stated: for While(cond, body) with a condition that reads no global
\* and a body that emits events, no condition node and no duplicate is
\* created, every body end has a po back-edge to every first event of the
\* body, and the next statement is chained to the body ends and the nodes
\* that preceded the loop; the example has 4 nodes and the 5 po edges
\* wx->wy, wy->ry, ry->wy, wx->wz, ry->wz.
C23_WhileNoCondition ==
    /\ (pc = "stmts" /\ node_count(graph) <= MaxBefore) =>
          \A stmt \in WhileStmts : WhileBodyOnly(Builder, stmt, thread, TRUE)
    /\ pc = "built" => WhileNoConditionEdges

\* C23, amended: as above, but a body end that is itself a first event of the
\* body gets no edge to itself.
C23_WhileNoSelfEdge ==
    /\ (pc = "stmts" /\ node_count(graph) <= MaxBefore) =>
          \A stmt \in WhileStmts : WhileBodyOnly(Builder, stmt, thread, FALSE)
    /\ pc = "built" => WhileNoConditionEdges

\* the builder has handled a while whose condition reads no global and whose
\* body starts with the read c of an if condition: the events after c that
\* end the body jump back to c, c itself is a body end with no edge to
\* itself, and the next event is chained to all of them
C23_Witness ==
    /\ pc = "stmts"
    /\ \E c \in Range(last_node) :
          /\ graph.nodes[c].kind = "Read"
          /\ PoReachable(graph, c, c)
          /\ ~HasEdge(graph, c, c, "ProgramOrder")
          /\ \E e \in Range(last_node) : e > c
          /\ \A e \in Range(last_node) :
                e > c => HasEdge(graph, e, c, "ProgramOrder")

\* handle_statement on While(cond, body) from the builder state b, for a body
\* that emits no event: bc is the builder after the k reads of the condition
\* alone.  With back_jump an edge from the last condition read to the first
\* one is expected when they differ.
WhileNoBody(b, stmt, t, back_jump) ==
    \A r \in {handle_statement(b, stmt, t)} :
    \A bc \in {handle_statement(b, If(stmt.c, <<>>, <<>>), t)} :
    \A bb \in {handle_block([b EXCEPT !.first = None], stmt.body, t, None)} :
        LET k == CondReadCount(stmt.c)
            n0 == node_count(b.graph)
            m0 == Len(b.graph.edges)
            added == {<<r.graph.edges[i].from, r.graph.edges[i].to>> :
                        i \in (m0 + 1)..Len(r.graph.edges)}
        IN (node_count(bb.graph) = n0 /\ ~r.panicked) =>
              /\ r.graph.nodes = bc.graph.nodes
              /\ node_count(r.graph) = n0 + k
              /\ IsReadChain(r.graph, n0 + 1, n0 + k, t)
              /\ SubSeq(r.graph.edges, 1, m0) = b.graph.edges
              /\ \A i \in (m0 + 1)..Len(r.graph.edges) :
                    r.graph.edges[i].weight = "ProgramOrder"
              /\ added = IF k = 0 THEN {}
                         ELSE {<<p, n0 + 1>> : p \in Range(b.last_node)}
                              \cup {<<n, n + 1>> : n \in (n0 + 1)..(n0 + k - 1)}
                              \cup (IF back_jump /\ k > 1
                                    THEN {<<n0 + k, n0 + 1>>} ELSE {})
              /\ r.last_node = IF k = 0 THEN b.last_node ELSE <<n0 + k>>

\* x = 0; while (x == 0) { a = 3; } x = 1;
WhileNoBodyExample ==
    create_aeg(<< << Assign("x", Num(0)),
                     While(Eq(Var("x"), Num(0)), <<Assign("a", Num(3))>>),
                     Assign("x", Num(1)) >> >>)

\* x = 0; while (a == 0) { a = 3; } x = 1;
WhileNoBodyNoCondition ==
    create_aeg(<< << Assign("x", Num(0)),
                     While(Eq(Var("a"), Num(0)), <<Assign("a", Num(3))>>),
                     Assign("x", Num(1)) >> >>)

WhileNoBodyEdges ==
    /\ \A g \in {WhileNoBodyExample} :
          /\ g.nodes = <<Write(1, "x"), Read(1, "x"), Write(1, "x")>>
          /\ {<<g.edges[e].from, g.edges[e].to>> : e \in Weighted(g, "ProgramOrder")}
                = {<<1, 2>>, <<2, 3>>}
          /\ Len(g.edges) = 2
    /\ \A g \in {WhileNoBodyNoCondition} :
          /\ g.nodes = <<Write(1, "x"), Write(1, "x")>>
          /\ {<<g.edges[e].from, g.edges[e].to>> : e \in Weighted(g, "ProgramOrder")}
                = {<<1, 2>>}
          /\ Len(g.edges) = 1

\* C24 as stated: for While(cond, body) with a body that emits no event, the
\* nodes added are one chain of the condition's reads of globals, and the
\* only po edges added lead from the predecessors to the first condition read
\* and along the chain: no duplicate and no back-edge; the next statement is
\* chained to the last condition read, or to the predecessors when the
\* condition reads no global.
C24_WhileNoBody ==
    /\ (pc = "stmts" /\ node_count(graph) <= MaxBefore) =>
          \A stmt \in WhileStmts : WhileNoBody(Builder, stmt, thread, FALSE)
    /\ pc = "built" => WhileNoBodyEdges

\* C24, amended: as above, but a condition with more than one read of a
\* global gets a po edge from its last read back to its first read.
C24_WhileBackJump ==
    /\ (pc = "stmts" /\ node_count(graph) <= MaxBefore) =>
          \A stmt \in WhileStmts : WhileNoBody(Builder, stmt, thread, TRUE)
    /\ pc = "built" => WhileNoBodyEdges

\* the builder has handled a while with two condition reads and no body
\* event: the second read is the only predecessor of the next event and
\* jumps back to the first read
C24_Witness ==
    /\ pc = "stmts"
    /\ Len(last_node) = 1
    /\ last_node[1] > 1
    /\ IsReadChain(graph, last_node[1] - 1, last_node[1], thread)
    /\ HasEdge(graph, last_node[1], last_node[1] - 1, "ProgramOrder")
    /\ graph.edges[Len(graph.edges)].from = last_node[1]

(***************************************************************************)
(* The interpreter: write buffers, the end of a thread and if statements.  *)
(***************************************************************************)
RunValues == {1, 100}

\* the entries of the buffer that write the variable k
WritesTo(buffer, k) == {i \in 1..Len(buffer) : buffer[i][1] = k}

Max(S) == CHOOSE n \in S : \A m \in S : m <= n

\* the memory after the writes of the buffer are applied oldest first: every
\* variable holds the value of the newest write to it
AppliedFifo(memory, buffer) ==
    [k \in DOMAIN memory \cup {buffer[i][1] : i \in 1..Len(buffer)} |->
        IF WritesTo(buffer, k) = {} THEN memory[k]
        ELSE buffer[Max(WritesTo(buffer, k))][2]]

WriteBuffered(s, x, value, t) ==
    \A w \in {write(s, x, value, t)} :
       IF s.memory_model = "Tso"
       THEN w = [s EXCEPT !.write_buffers[t] = Append(@, <<x, value>>)]
       ELSE /\ read(w, x) = value
            /\ w = [s EXCEPT !.memory = w.memory]
            /\ \A k \in DOMAIN s.memory \ {x} : w.memory[k] = s.memory[k]

FlushSingleOldest(s, t) ==
    \A f \in {flush_single_write_buffer(s, t)} :
       LET buffer == s.write_buffers[t]
       IN IF buffer = <<>> THEN f.state = s /\ ~f.flushed
          ELSE /\ f.flushed
               /\ f.state = [s EXCEPT !.write_buffers[t] = Tail(buffer),
                                      !.memory = AppliedFifo(s.memory, <<Head(buffer)>>)]

FlushAll(s, t) ==
    \A f \in {flush_write_buffer(s, t)} :
       /\ f = [s EXCEPT !.write_buffers[t] = <<>>,
                        !.memory = AppliedFifo(s.memory, s.write_buffers[t])]
       /\ simulate_instruction(FenceStmt("WR"), t, s, <<0>>, 1).state = f

ThreadName(i) == program.threads[i + 1].name

\* the thread with index i ends in this step
Ends(i) == i \in Range(active_threads) /\ i \notin Range(active_threads')

\* the thread with index i stands at a top-level write to a global
AtGlobalWrite(i) ==
    /\ Len(ip[i + 1]) = 1
    /\ ip[i + 1][1] < Len(program.threads[i + 1].instructions)
    /\ LET instruction == program.threads[i + 1].instructions[ip[i + 1][1] + 1]
       IN instruction.k = "Modify" /\ is_global(state, instruction.w)

\* C27: under Tso the step in which a thread ends with a write to a global
\* leaves the buffer of the thread at least as long as it was: the buffer is
\* not flushed; and the buffer of a thread that has ended stays as it is, so
\* that after run_threads has returned the buffered writes of t1 { x = 100; }
\* are never applied.
C27_ThreadEnd ==
    [][ (pc = "running" /\ state.memory_model = "Tso") =>
           \A i \in 0..(Len(program.threads) - 1) :
              /\ (Ends(i) /\ AtGlobalWrite(i)) =>
                    Len(state'.write_buffers[ThreadName(i)])
                       >= Len(state.write_buffers[ThreadName(i)])
              /\ i \notin Range(active_threads) =>
                    state'.write_buffers[ThreadName(i)]
                       = state.write_buffers[ThreadName(i)] ]_vars

\* run_threads has returned from t1 { x = 100; } with the write in the buffer
\* of t1 and the memory holding the initial value of x
C27_Witness ==
    /\ pc = "returned"
    /\ program.threads = <<[name |-> "t1", instructions |-> <<Modify("x", Num(100))>>]>>
    /\ active_threads = <<>>
    /\ state.write_buffers["t1"] = <<<<"x", 100>>>>
    /\ read(state, "x") = 10

\* the statement alone, run to its end by one thread that nothing interrupts
RECURSIVE RunAlone(_, _, _, _)
RunAlone(instruction, t, s, p) ==
    LET r == simulate_instruction(instruction, t, s, p, 1)
    IN IF r.panicked \/ r.cont THEN r
       ELSE RunAlone(instruction, t, r.state, r.ip)

\* the state after the statements of the block, one after the other
RECURSIVE ExecuteInOrder(_, _, _)
ExecuteInOrder(block, t, s) ==
    IF block = <<>> THEN s
    ELSE ExecuteInOrder(Tail(block), t,
                        simulate_instruction(Head(block), t, s, <<0>>, 1).state)

RunBranches ==
    {<<>>, <<Assign("a", Num(1))>>, <<Assign("a", Num(2))>>,
     <<Assign("a", Num(1)), Assign("a", Num(2))>>,
     <<Assign("a", Num(2)), Modify("x", Var("a"))>>}

RunIfStmts ==
    {If(c, thn, els) : c \in {Eq(Var("x"), Num(10)), Neg(Eq(Var("x"), Num(10)))},
                       thn \in RunBranches, els \in RunBranches}

\* C28: an if statement run to its end leaves the state that the statements
\* of the then branch, in order, leave when the condition holds, and that the
\* statements of the else branch leave when it does not, with the instruction
\* pointer back at the if and no failure, whatever the lengths of the branches.
C28_If ==
    pc = "running" =>
        \A stmt \in RunIfStmts, t \in DOMAIN state.write_buffers :
            \A r \in {RunAlone(stmt, t, state, <<0>>)} :
                /\ ~r.panicked
                /\ r.ip = <<0>>
                /\ r.state = ExecuteInOrder(
                                IF evaluate_cond_expression(stmt.c, state, t)
                                THEN stmt.thn ELSE stmt.els, t, state)

(***************************************************************************)
(* The returned cycles as walks of the graph, and the tables of the        *)
(* incomplete cycles.                                                      *)
(***************************************************************************)
\* C25: no two returned records hold node sequences that are different
\* rotations of one another, every start node is explored once its search is
\* over and no returned cycle starting at a later node passes through it, and
\* with skip_branches no node sequence is returned twice.
C25_NoRotations ==
    pc = "done" =>
        /\ explored = node_indices(graph)
        /\ \A i, j \in 1..Len(all_cycles) :
              i # j =>
                 /\ all_cycles[i].cycle # all_cycles[j].cycle =>
                       ~IsRotation(all_cycles[i].cycle, all_cycles[j].cycle)
                 /\ config.skip_branches =>
                       all_cycles[i].cycle # all_cycles[j].cycle
        /\ \A cyc \in Cycles : \A n \in Range(cyc) : n >= Head(cyc)

\* two cycles are returned, and a rotation of the first one starts at the
\* node the second one starts at
C25_Witness ==
    /\ pc = "done"
    /\ config.skip_branches
    /\ \E i, j \in 1..Len(all_cycles) :
          /\ Head(all_cycles[i].cycle) < Head(all_cycles[j].cycle)
          /\ Contains(all_cycles[i].cycle, Head(all_cycles[j].cycle))

\* C29: every returned cycle is a closed walk of the graph: each node of the
\* cycle is followed, the last one by the first, by one of its neighbours, a
\* node it has a Competing edge to or a node that one or more ProgramOrder
\* edges lead to.
C29_ClosedWalk ==
    pc = "done" =>
        \A cyc \in Cycles :
            /\ IsClosedWalk(graph, cyc)
            /\ \A i \in 1..Len(cyc) :
                  Contains(neighbors(graph, cyc[i]), cyc[Succ(cyc, i)])

\* a returned cycle with a step along a ProgramOrder path of more than one
\* edge and a step along a Competing edge
C29_Witness ==
    /\ pc = "done"
    /\ \E cyc \in Cycles :
          /\ \E i \in 1..Len(cyc) :
                /\ PoReachable(graph, cyc[i], cyc[Succ(cyc, i)])
                /\ ~HasEdge(graph, cyc[i], cyc[Succ(cyc, i)], "ProgramOrder")
          /\ \E i \in 1..Len(cyc) :
                HasEdge(graph, cyc[i], cyc[Succ(cyc, i)], "Competing")

IsIncreasing(seq) == \A i, j \in 1..Len(seq) : i < j => seq[i] < seq[j]

\* the table lists, in increasing order, the positions of the cycle, counted
\* from 0, whose node has the key under field, and no list is longer than cap
TableMatches(g, mc, table, field, cap) ==
    /\ DOMAIN table = {g.nodes[mc.cycle[i]][field] : i \in 1..Len(mc.cycle)}
    /\ \A key \in DOMAIN table :
          /\ IsIncreasing(table[key])
          /\ Range(table[key])
                = {i - 1 : i \in {j \in 1..Len(mc.cycle) :
                                     g.nodes[mc.cycle[j]][field] = key}}
          /\ Len(table[key]) <= cap

TablesMatch(g, mc) ==
    /\ TableMatches(g, mc, mc.thread_accesses, "thread", 2)
    /\ TableMatches(g, mc, mc.memory_accesses, "addr", 3)

\* the search from the start node s, entered with the earlier start nodes
\* explored
SearchFrom(s) ==
    dfs_run([stack |-> <<add_node_unchecked(with_architecture(config.architecture),
                                            graph, s)>>,
             discovered |-> {}, inner_cycles |-> <<>>, panicked |-> FALSE],
            graph, config, 1..(s - 1))

\* C30: in every incomplete cycle that a search of critical_cycles expands,
\* thread_accesses and memory_accesses list in increasing order exactly the
\* positions of the nodes of each thread, at most 2, and of each memory
\* location, at most 3; a node that can be added never meets a full list and
\* leaves the tables matching, and a rejected add_node changes nothing.  The
\* searches read skip_branches nowhere and are followed with it set.
C30_Tables ==
    (pc = "aeg" /\ ~config.debug_assertions /\ config.skip_branches) =>
        \A s \in node_indices(graph) :
            \A d \in {SearchFrom(s)} :
                /\ ~d.panicked
                /\ \A mc \in d.discovered :
                      /\ TablesMatch(graph, mc)
                      /\ \A n \in node_indices(graph) :
                            \A a \in {mc_add_node(mc, graph, n, FALSE)} :
                                /\ a.added # "panic"
                                /\ a.added = "true" => TablesMatch(graph, a.mc)
                                /\ a.added = "false" => a.mc = mc

\* an incomplete cycle of a search holds two nodes of one thread and three
\* accesses to one memory location
C30_Witness ==
    /\ pc = "aeg"
    /\ ~config.debug_assertions
    /\ config.skip_branches
    /\ \E s \in node_indices(graph) :
          \E mc \in SearchFrom(s).discovered :
             /\ \E t \in DOMAIN mc.thread_accesses : Len(mc.thread_accesses[t]) = 2
             /\ \E m \in DOMAIN mc.memory_accesses : Len(mc.memory_accesses[m]) = 3

====
